---------------------------- MODULE Spec2Model ----------------------------
(***************************************************************************)
(* A model of the confined Python execution engine of DesktopCommanderMCP  *)
(* (src/tools/python-executor.ts and the request schema in schemas.ts).    *)
(*                                                                         *)
(* The host side is executePythonCode with the functions it awaits         *)
(* (findPythonCommand, installPythonPackages, executePythonScript); every  *)
(* action is one stretch of host code between two awaits, or one event     *)
(* callback.  The guest side is the generated wrapper script: the request's*)
(* code is a short program of statements that call the intercepted         *)
(* filesystem primitives.                                                  *)
(*                                                                         *)
(* Text is modelled as sequences of one-character strings wherever the     *)
(* code inspects characters (package specifiers, canonical paths).         *)
(***************************************************************************)
EXTENDS Naturals, Sequences, FiniteSets, TLC

VARIABLES
    entry,          \* which function the caller invoked
    args,           \* the raw arguments of the call
    platform,       \* process.platform / sys.platform
    hostEnv,        \* process.env of the host (a variable missing = "")
    interp,         \* the Python installation and what os.chdir meets
    pc,             \* position of the host code
    parsed,         \* parsed.data of the schema (defaults applied, text trimmed)
    timeout_ms,     \* effective timeout of executePythonCode
    workspaceDir,   \* workspace directory chosen by the workspace mode
    resolvedTargetDir, \* directory the guest runs in
    tempExists,     \* whether the scratch directory is on disk
    tempCreated,    \* whether the scratch directory was ever created
    rmAttempts,     \* number of fs.rm(tempDir) calls issued
    logged,         \* number of console.error cleanup reports
    pending,        \* exception travelling to the outer catch, or NoError
    spawned,        \* every subprocess spawned so far: kind, command, env
    probe,          \* findPythonCommand: caller, index of the command tried
    proc,           \* the subprocess run by the process runner
    runResult,      \* what the runner's promise resolved to
    finalResult,    \* finalResult of executePythonCode before cleanup
    result,         \* the value returned to the caller
    guest,          \* state of the generated script inside the guest
    touched,        \* original primitives the guest reached: op and paths
    disk,           \* directories and files the requests made and left
    peer,           \* a second request that runs at the same time
    installed       \* packages the installer fetched for earlier requests

vars == << entry, args, platform, hostEnv, interp, pc, parsed, timeout_ms, workspaceDir,
           resolvedTargetDir, tempExists, tempCreated, rmAttempts, logged,
           pending, spawned, probe, proc, runResult, finalResult, result,
           guest, touched, disk, peer, installed >>

(***************************************************************************)
(* Bounds of the model.                                                    *)
(***************************************************************************)
MaxSpecLen == 3      \* characters in a package specifier
MaxChunks == 1       \* data events per output stream of a subprocess
MaxEnvSet == 1       \* host environment variables that differ from TypicalEnv
MaxPathLen == 2      \* names in a candidate path handed to _is_path_allowed
MaxCodeLen == 2      \* UTF-16 code units in a source text given to the shim generator

(***************************************************************************)
(* Text helpers.                                                           *)
(***************************************************************************)
StartsWith(s, p) ==
    /\ Len(s) >= Len(p)
    /\ SubSeq(s, 1, Len(p)) = p

Includes(s, p) ==
    \E i \in 1..(Len(s) + 1) :
        /\ i + Len(p) - 1 <= Len(s)
        /\ SubSeq(s, i, i + Len(p) - 1) = p

SeqsUpTo(S, n) == UNION { [1..k -> S] : k \in 0..n }

(***************************************************************************)
(* Package specifiers: schemas.ts.                                         *)
(***************************************************************************)
\* Characters a caller may send in this model: a letter, the characters the
\* grammar singles out, white space and one character outside the class.
SpecChars == {"a", "-", ".", "=", " ", ";"}

Whitespace == {" "}

\* The character class [A-Za-z0-9_.\-\[\]!\>=<,] of PACKAGE_NAME_REGEX.
RegexClass == {"a", "0", "_", ".", "-", "[", "]", "!", ">", "=", "<", ","}

\* /^(?!-)(?!.*(\.\.|--))[A-Za-z0-9_.\-\[\]!\>=<,]+$/.test(s)
PACKAGE_NAME_REGEX(s) ==
    /\ ~StartsWith(s, <<"-">>)
    /\ ~Includes(s, <<".", ".">>)
    /\ ~Includes(s, <<"-", "-">>)
    /\ Len(s) >= 1
    /\ \A i \in 1..Len(s) : s[i] \in RegexClass

\* String.prototype.trim, as zod's .trim() applies it before the other checks.
RECURSIVE TrimStart(_)
TrimStart(s) ==
    IF s # <<>> /\ Head(s) \in Whitespace THEN TrimStart(Tail(s)) ELSE s

RECURSIVE TrimEnd(_)
TrimEnd(s) ==
    IF s # <<>> /\ s[Len(s)] \in Whitespace
    THEN TrimEnd(SubSeq(s, 1, Len(s) - 1))
    ELSE s

Trim(s) == TrimEnd(TrimStart(s))

\* z.string().trim().min(1).regex(PACKAGE_NAME_REGEX) on one array element.
PackageItemOkLengthOnly(s) == Len(Trim(s)) >= 1

PackageItemOk(s) ==
    /\ Len(Trim(s)) >= 1
    /\ PACKAGE_NAME_REGEX(Trim(s))

(***************************************************************************)
(* The minimal environment: buildMinimalEnvironment and the spawn sites.   *)
(***************************************************************************)
CommonWhitelist == {"PATH", "HOME", "TMPDIR", "TEMP", "TMP"}

WindowsWhitelist == {"SYSTEMROOT", "WINDIR", "USERNAME", "USERPROFILE",
                     "APPDATA", "LOCALAPPDATA"}

PosixWhitelist == {"USER", "LOGNAME", "LANG", "LC_ALL"}

\* Host variables of the model: the three lists above, the module search path
\* and one variable that holds a credential.
HostVars == CommonWhitelist \cup WindowsWhitelist \cup PosixWhitelist
                \cup {"PYTHONPATH", "AWS_SECRET_ACCESS_KEY"}

EnvValues == {"a", "b"}

Platforms == {"linux", "win32"}

RECURSIVE SubsetsUpTo(_, _)
SubsetsUpTo(S, k) ==
    IF k = 0 THEN {{}}
    ELSE LET smaller == SubsetsUpTo(S, k - 1)
         IN  smaller \cup { T \cup {v} : T \in smaller, v \in S }

\* process.env of a typical host: a search path, a home directory, a module
\* search path of its own and a credential.
TypicalEnv ==
    [v \in HostVars |->
        IF v \in {"PATH", "HOME", "PYTHONPATH", "AWS_SECRET_ACCESS_KEY"}
        THEN "a" ELSE ""]

\* Host environments: TypicalEnv with at most MaxEnvSet variables set to
\* another value or unset.
HostEnvs ==
    UNION { { [v \in HostVars |-> IF v \in S THEN f[v] ELSE TypicalEnv[v]] :
                f \in [S -> EnvValues \cup {""}] } :
            S \in SubsetsUpTo(HostVars, MaxEnvSet) }

\* An environment handed to spawn() is a function from the names it holds.
\* const env = { PATH: process.env.PATH || '', ... }; then the entries whose
\* value is '' are filtered out.
buildEnvironmentFromProcessEnv(h, plat) ==
    [v \in {n \in HostVars : h[n] # ""} |-> h[v]]

buildMinimalEnvironment(h, plat) ==
    LET listed == CommonWhitelist \cup
                    (IF plat = "win32" THEN WindowsWhitelist ELSE PosixWhitelist)
        env == [v \in listed |-> h[v]]
    IN  [v \in {n \in listed : env[n] # ""} |-> env[v]]

\* if (process.platform === 'win32') { env.PYTHONIOENCODING = 'utf-8'; env.PYTHONUTF8 = '1' }
ForceUtf8(env, plat) ==
    IF plat = "win32"
    THEN [v \in DOMAIN env \cup {"PYTHONIOENCODING", "PYTHONUTF8"} |->
             IF v = "PYTHONIOENCODING" THEN "utf-8"
             ELSE IF v = "PYTHONUTF8" THEN "1" ELSE env[v]]
    ELSE env

\* installPythonPackages: spawn(pythonCmd, args, { env })
InstallerEnv(h, plat) == ForceUtf8(buildMinimalEnvironment(h, plat), plat)

\* executePythonScript: env.PYTHONPATH = packagesDir; spawn(pythonCmd, [scriptPath], { env })
GuestEnvKeepsHostPath(h, plat, pkgDir) ==
    LET base == buildMinimalEnvironment(h, plat)
        withPath == [v \in DOMAIN base \cup {"PYTHONPATH"} |->
                        IF v # "PYTHONPATH" THEN base[v]
                        ELSE IF h[v] # "" THEN h[v] ELSE pkgDir]
    IN  ForceUtf8(withPath, plat)

GuestEnv(h, plat, pkgDir) ==
    LET base == buildMinimalEnvironment(h, plat)
        withPath == [v \in DOMAIN base \cup {"PYTHONPATH"} |->
                        IF v = "PYTHONPATH" THEN pkgDir ELSE base[v]]
    IN  ForceUtf8(withPath, plat)

\* findPythonCommand: spawn(cmd, ['--version']) passes no env option, so the
\* child inherits process.env as it is.
ProbeEnv(h) == [v \in {n \in HostVars : h[n] # ""} |-> h[v]]

(***************************************************************************)
(* Paths.  A path is a sequence of names below the filesystem root; its    *)
(* text is built from the characters of the names, because the guest's     *)
(* allow check compares text.                                              *)
(***************************************************************************)
\* Names of the model and how each is spelled.  "xy" extends "x" by one
\* character and "X" differs from "x" in case only.
Spelling ==
    [ tmp |-> <<"t">>, s1 |-> <<"s">>, packages |-> <<"p">>,
      home |-> <<"h">>, dc |-> <<"d">>, pw |-> <<"q">>, srv |-> <<"v">>,
      w |-> <<"w">>, x |-> <<"x">>, xy |-> <<"x", "y">>, X |-> <<"X">>,
      o |-> <<"o">>, ln |-> <<"l">>, f |-> <<"f">>, t |-> <<"n">> ]

Names == DOMAIN Spelling

\* str.lower() on the characters of the model.
LowerChar(c) == IF c = "X" THEN "x" ELSE IF c = "C" THEN "c" ELSE c

Lower(s) == [i \in 1..Len(s) |-> LowerChar(s[i])]

\* os.sep
Sep(plat) == IF plat = "win32" THEN "\\" ELSE "/"

RECURSIVE JoinNames(_, _)
JoinNames(segs, sep) ==
    IF segs = <<>> THEN <<>>
    ELSE <<sep>> \o Spelling[Head(segs)] \o JoinNames(Tail(segs), sep)

\* The text of an absolute path: "/" or "/a/b"; "C:\" or "C:\a\b" on Windows.
PathText(segs, plat) ==
    LET drive == IF plat = "win32" THEN <<"C", ":">> ELSE <<>>
    IN  IF segs = <<>> THEN drive \o <<Sep(plat)>>
        ELSE drive \o JoinNames(segs, Sep(plat))

\* Directories of the host.
TmpDir == <<"tmp">>                      \* os.tmpdir()
tempDir == TmpDir \o <<"s1">>            \* path.join(os.tmpdir(), sessionId)
packagesDir == tempDir \o <<"packages">> \* path.join(tempDir, 'packages')
scriptPath == tempDir \o <<"script.py">>  \* path.join(tempDir, 'script.py')
HomeDir == <<"home">>                    \* os.homedir()
PersistentDir == HomeDir \o <<"dc", "pw">>  \* ~/.desktop-commander/python-workspace
Cwd == <<"srv">>                         \* process.cwd()

\* The value given to PYTHONPATH: the text of packagesDir.
PackagesDirValue == "tmp/s1/packages"

\* Symbolic links on disk: one inside the directory x that leads outside, one
\* outside that leads into it.
Symlinks == (<<"x", "ln">> :> <<"o">>) @@ (<<"o", "ln">> :> <<"x">>)

\* path.normalize / the lexical part of path.resolve: "." dropped, ".."
\* removes the name before it and stays at the root.
RECURSIVE Normalize(_, _)
Normalize(done, rest) ==
    IF rest = <<>> THEN done
    ELSE IF Head(rest) = "." THEN Normalize(done, Tail(rest))
    ELSE IF Head(rest) = ".."
         THEN Normalize(IF done = <<>> THEN done
                        ELSE SubSeq(done, 1, Len(done) - 1), Tail(rest))
    ELSE Normalize(Append(done, Head(rest)), Tail(rest))

(***************************************************************************)
(* The guest's allow check: _is_path_allowed of the generated script.      *)
(***************************************************************************)
\* What guest code may pass where a path is expected.  "str" is a path text;
\* the other kinds make the conversion or the resolution raise:
\*   "int"    os.fspath raises TypeError
\*   "nul"    realpath raises ValueError (embedded null byte)
\*   "nocwd"  a relative path while the current directory is gone: OSError
\*   "custom" an object whose __fspath__ raises some other exception
\* "fd" is one of the integers 0, 1, 2 (os.fspath raises TypeError on it too).
ErrorKinds == {"int", "nul", "nocwd", "custom"}

Cand(kind, abs, segs) == [kind |-> kind, abs |-> abs, segs |-> segs]

\* os.path.expanduser, then the absolute form os.path.realpath starts from.
Expand(c, cwd) ==
    IF c.abs THEN c.segs
    ELSE IF c.segs # <<>> /\ Head(c.segs) = "~" THEN HomeDir \o Tail(c.segs)
    ELSE cwd \o c.segs

\* posixpath.realpath: the names are walked from the root, ".." steps back
\* from where the links led, a name that is a link is replaced by its target.
RECURSIVE Walk(_, _)
Walk(done, rest) ==
    IF rest = <<>> THEN done
    ELSE IF Head(rest) = "." THEN Walk(done, Tail(rest))
    ELSE IF Head(rest) = ".."
         THEN Walk(IF done = <<>> THEN done
                   ELSE SubSeq(done, 1, Len(done) - 1), Tail(rest))
    ELSE LET next == Append(done, Head(rest))
         IN  IF next \in DOMAIN Symlinks
             THEN Walk(Symlinks[next], Tail(rest))
             ELSE Walk(next, Tail(rest))

\* os.path.realpath(os.path.expanduser(p)).  ntpath.realpath normalizes the
\* text before it resolves links; posixpath.realpath resolves as it walks.
Realpath(c, cwd, plat) ==
    IF plat = "win32"
    THEN Walk(<<>>, Normalize(<<>>, Expand(c, cwd)))
    ELSE Walk(<<>>, Expand(c, cwd))

\* real_path / allowed_real: the text compared, lower-cased on Windows.
RealText(c, cwd, plat) ==
    LET text == PathText(Realpath(c, cwd, plat), plat)
    IN  IF plat = "win32" THEN Lower(text) ELSE text

\* real_path == allowed_real or real_path.startswith(allowed_real + os.sep)
MatchesRootMissingSep(real, allowed, plat) ==
    real = allowed \/ StartsWith(real, allowed)

MatchesRoot(real, allowed, plat) ==
    real = allowed \/ StartsWith(real, allowed \o <<Sep(plat)>>)

\* The except clauses of _is_path_allowed: the error is written to
\* sys.stderr and False is returned; when that write raises (guest code can
\* replace or close sys.stderr) the new exception leaves the function.
OnResolveError(stderrOk) == IF stderrOk THEN "denied" ELSE "raised"

\* _is_path_allowed(filepath): "allowed" is True, "denied" is False, "raised"
\* is an exception leaving the function.
is_path_allowed(c, dirs, cwd, plat, stderrOk) ==
    IF c.kind # "str" THEN OnResolveError(stderrOk)
    ELSE LET real == RealText(c, cwd, plat)
         IN  IF \E i \in 1..Len(dirs) :
                    MatchesRoot(real, RealText(Cand("str", TRUE, dirs[i]), cwd, plat), plat)
             THEN "allowed"
             ELSE "denied"

(***************************************************************************)
(* The intercepted primitives of the generated script.                     *)
(***************************************************************************)
OneArgOps == {"open", "listdir", "mkdir", "makedirs", "remove", "rmdir",
              "unlink", "chmod", "chown", "rmtree"}

TwoArgOps == {"rename", "replace", "symlink", "link", "copy", "copy2",
              "copyfile", "move", "copytree"}

InterceptedOps == OneArgOps \cup TwoArgOps

\* The arguments a wrapper passes through _is_path_allowed before it calls
\* the original: every path argument, the source first.
CheckedArgsSourceOnly(op, paths) == {1}

CheckedArgs(op, paths) == 1..Len(paths)

\* One call of a wrapper (_safe_open, _safe_rename, _safe_shutil_copy, ...):
\* what it raised, and whether the original primitive was called.
SafeCall(op, paths, dirs, cwd, plat, stderrOk) ==
    LET verdict == [i \in 1..Len(paths) |->
                       is_path_allowed(paths[i], dirs, cwd, plat, stderrOk)]
        bad == {i \in CheckedArgs(op, paths) : verdict[i] # "allowed"}
        first == CHOOSE i \in bad : \A j \in bad : i <= j
    IN  IF op = "open" /\ paths[1].kind = "fd"
        THEN \* if file in (0, 1, 2): return _original_open(file, ...)
             [raised |-> "none", invoked |-> TRUE, verdict |-> verdict]
        ELSE IF op = "chown" /\ plat = "win32"
        THEN \* os.chown does not exist: _original_chown is None
             [raised |-> "AttributeError", invoked |-> FALSE, verdict |-> verdict]
        ELSE IF bad = {}
        THEN [raised |-> "none", invoked |-> TRUE, verdict |-> verdict]
        ELSE IF verdict[first] = "denied"
        THEN [raised |-> "PermissionError", invoked |-> FALSE, verdict |-> verdict]
        ELSE [raised |-> "other", invoked |-> FALSE, verdict |-> verdict]

NoCall == [raised |-> "none", invoked |-> FALSE, verdict |-> <<>>]

\* tempfile.mkstemp(...), mkdtemp(...), NamedTemporaryFile(...),
\* TemporaryDirectory(...).
TempfileOps == {"mkstemp", "mkdtemp", "NamedTemporaryFile", "TemporaryDirectory"}

\* allowed_dirs is a list object: it is reached through the closure cells
\* of the wrappers and list.append changes it in place.
AllowedDirsAfter(dirs, st) ==
    IF st.op = "closure_append" THEN Append(dirs, st.paths[1].segs) ELSE dirs

\* The module a primitive is reached through.
ModuleOf(op) ==
    IF op \in {"copy", "copy2", "copyfile", "move", "rmtree", "copytree"}
    THEN "shutil"
    ELSE IF op \in TempfileOps THEN "tempfile"
    ELSE "os"

\* A call that raises something other than the access-denied error before
\* any original primitive is reached.
FailedCall == [raised |-> "other", invoked |-> FALSE, verdict |-> <<>>]

\* The entry a tempfile primitive creates: a fresh name "t" under
\* os.path.join(dir, prefix...), wherever the operating system finds that.
TempfileEntry(dir, prefix, cwd, plat) ==
    Walk(<<>>, Realpath(dir, cwd, plat) \o prefix \o <<"t">>)

\* The directory a tempfile wrapper hands to the original when the caller
\* named none: kwargs['dir'] = '${escapedTempDir}'
TempfileDefaultDirWorking(scratch, target) == Cand("str", TRUE, target)

TempfileDefaultDir(scratch, target) == Cand("str", TRUE, scratch)

\* One call of _safe_mkstemp, _safe_mkdtemp, _safe_NamedTemporaryFile or
\* _safe_TemporaryDirectory.  Only a dir passed by keyword is seen by the
\* wrapper; a dir passed by position meets the dir keyword the wrapper adds
\* (TypeError: multiple values for argument 'dir').  The original
\* TemporaryDirectory calls the module's mkdtemp(suffix, prefix, dir), which
\* is _safe_mkdtemp by then, with dir by position.  invoked tells that the
\* original went on to create the entry.
TempfileCall(op, how, paths, dirs, cwd, plat, stderrOk, checkRaises) ==
    LET verdict == IF how # "keyword" THEN <<>>
                   ELSE IF checkRaises THEN << "raised" >>
                   ELSE << is_path_allowed(paths[1], dirs, cwd, plat, stderrOk) >>
    IN  IF how = "keyword" /\ verdict[1] = "denied"
        THEN [raised |-> "PermissionError", invoked |-> FALSE, verdict |-> verdict]
        ELSE IF how = "keyword" /\ verdict[1] = "raised"
        THEN [raised |-> "other", invoked |-> FALSE, verdict |-> verdict]
        ELSE IF how = "positional" \/ op = "TemporaryDirectory"
        THEN [raised |-> "TypeError", invoked |-> FALSE, verdict |-> verdict]
        ELSE [raised |-> "none", invoked |-> TRUE, verdict |-> verdict]

\* One statement of guest code that calls into the file system.  On a
\* Python without shutil or tempfile the guest's own import raises.  When
\* the pathlib block of _setup_sandbox was left by its except clause, the
\* `import sys` inside it never ran: sys is a local of _setup_sandbox that
\* _is_path_allowed reads as a free variable, so every check raises
\* NameError.
GuestCall(st, dirs, cwd, plat, stderrOk, py) ==
    IF st.op \in InterceptedOps
    THEN IF ModuleOf(st.op) \in py.lacks THEN FailedCall
         ELSE IF "pathlib" \in py.lacks /\ ~(st.op = "open" /\ st.paths[1].kind = "fd")
         THEN FailedCall
         ELSE SafeCall(st.op, st.paths, dirs, cwd, plat, stderrOk)
    ELSE IF st.op \in TempfileOps
    THEN IF "tempfile" \in py.lacks THEN FailedCall
         ELSE TempfileCall(st.op, st.how, st.paths, dirs, cwd, plat, stderrOk,
                           "pathlib" \in py.lacks)
    ELSE NoCall

\* A statement of guest code: print(...), sys.stderr = None, a write on the
\* error stream, the start of a child, an endless loop, or a call of an
\* intercepted primitive, inside try/except or not.
\* how and prefix belong to the calls of tempfile: how the dir argument is
\* passed ("none", "keyword", "positional") and the directory part of the
\* prefix argument.
Stmt(op, paths, caught) ==
    [op |-> op, paths |-> paths, caught |-> caught, how |-> "", prefix |-> <<>>]

TempStmt(op, how, paths, prefix, caught) ==
    [Stmt(op, paths, caught) EXCEPT !.how = how, !.prefix = prefix]

\* Guest code that walks from the intercepted open to the list of allowed
\* directories and appends a directory to it:
\*   open.__closure__ -> _is_path_allowed -> __closure__ -> allowed_dirs
ClosureAppendStmt(dir) == Stmt("closure_append", << Cand("str", TRUE, dir) >>, FALSE)

PrintStmt == Stmt("print", <<>>, FALSE)

\* os.write(2, ...): a line, or white space only, on the error stream.
WriteErrStmt == Stmt("write_err", <<>>, FALSE)

WriteErrBlankStmt == Stmt("write_err_blank", <<>>, FALSE)

\* subprocess.Popen(...) of a child that inherits the output streams and
\* outlives the script.
PopenStmt == Stmt("popen", <<>>, FALSE)

\* while True: pass
HangStmt == Stmt("hang", <<>>, FALSE)

BreakStderrStmt == Stmt("break_stderr", <<>>, FALSE)

(***************************************************************************)
(* Results returned to the caller: the error flag and what the text says.  *)
(***************************************************************************)
\* No '--- Execution Details ---' after the text.
NoTrailer ==
    [ present |-> FALSE, workspace |-> <<>>, timeout |-> 0,
      listed |-> FALSE, packages |-> <<>> ]

Res(isError, kind) ==
    [ isError |-> isError, kind |-> kind, pkg |-> <<>>, cause |-> "",
      exit |-> "", out |-> <<>>, err |-> <<>>, ms |-> 0, trailer |-> NoTrailer ]

NoResult == Res(FALSE, "none")

(***************************************************************************)
(* The request schema: ExecutePythonCodeArgsSchema.                        *)
(***************************************************************************)
\* z.number().int().min(1000).max(300000), or "auto"; optional
TimeoutOk(t) == ~t.given \/ t.auto \/ (t.ms >= 1000 /\ t.ms <= 300000)

SchemaOkAnyCode(a) ==
    /\ TimeoutOk(a.timeout_ms)
    /\ a.install_packages.given =>
          \A i \in 1..Len(a.install_packages.list) :
              PackageItemOk(a.install_packages.list[i])
    /\ a.return_format \in {"simple", "detailed"}

SchemaOk(a) ==
    /\ ~a.code.blank                               \* .trim().min(1)
    /\ TimeoutOk(a.timeout_ms)
    /\ a.install_packages.given =>
          \A i \in 1..Len(a.install_packages.list) :
              PackageItemOk(a.install_packages.list[i])
    /\ a.return_format \in {"simple", "detailed"}

\* parsed.data: the elements of install_packages are the trimmed texts.
ParsedData(a) ==
    [ code |-> a.code.stmts,
      target_directory |-> a.target_directory,
      timeout_ms |-> IF a.timeout_ms.given THEN a.timeout_ms
                     ELSE [given |-> TRUE, auto |-> TRUE, ms |-> 0],  \* .default("auto")
      install_packages |->
          IF a.install_packages.given
          THEN [i \in 1..Len(a.install_packages.list) |->
                    Trim(a.install_packages.list[i])]
          ELSE <<>>,
      workspace |-> a.workspace,
      return_format |-> a.return_format ]

NoParsed ==
    [ code |-> <<>>,
      target_directory |-> [given |-> FALSE, abs |-> FALSE, segs |-> <<>>],
      timeout_ms |-> [given |-> TRUE, auto |-> TRUE, ms |-> 0],
      install_packages |-> <<>>,
      workspace |-> [mode |-> "temp", abs |-> FALSE, segs |-> <<>>],
      return_format |-> "simple" ]

\* timeout_ms: 120000 with packages, 30000 without, unless a number is given.
EffectiveTimeoutByPackages(d) ==
    IF d.timeout_ms.auto \/ Len(d.install_packages) > 0
    THEN IF Len(d.install_packages) > 0 THEN 120000 ELSE 30000
    ELSE d.timeout_ms.ms

EffectiveTimeout(d) ==
    IF d.timeout_ms.auto
    THEN IF Len(d.install_packages) > 0 THEN 120000 ELSE 30000
    ELSE d.timeout_ms.ms

(***************************************************************************)
(* State of the host between calls.                                        *)
(***************************************************************************)
NoTarget == [given |-> FALSE, abs |-> FALSE, segs |-> <<>>]

NoProbe == [for |-> "none", idx |-> 1, phase |-> "idle", cmd |-> ""]

\* const KILL_GRACE_PERIOD_MS = 5000
KILL_GRACE_PERIOD_MS == 5000

\* const commands = ['python3', 'python']
Commands == <<"python3", "python">>

NoProc ==
    [ kind |-> "none", os |-> "none", exitCode |-> "null", signalCode |-> "null",
      pipeOut |-> <<>>, pipeErr |-> <<>>, wrote |-> 0,
      stdout |-> <<>>, stderr |-> <<>>,
      timeoutId |-> "unset", killTimeoutId |-> "unset", isTimedOut |-> FALSE,
      timeoutDelay |-> 0, killDelay |-> 0,
      kills |-> <<>>, signals |-> <<>>, shared |-> FALSE,
      errored |-> FALSE, closed |-> FALSE, resolved |-> FALSE ]

\* The runner right after spawn(): setTimeout(..., timeout_ms) when
\* timeout_ms > 0; os is "failed" when the process could not be created.
\* kills are the calls of proc.kill, signals the signals that reached a
\* live process; shared tells that a descendant of the process holds its
\* output streams open.
NewProcOneDeadline(kind, started, ms) ==
    [ NoProc EXCEPT !.kind = kind,
                    !.os = IF started THEN "running" ELSE "failed",
                    !.timeoutId = IF ms > 0 /\ kind # "guest" THEN "armed" ELSE "unset",
                    !.timeoutDelay = IF kind # "guest" THEN ms ELSE 0 ]

NewProc(kind, started, ms) ==
    [ NoProc EXCEPT !.kind = kind,
                    !.os = IF started THEN "running" ELSE "failed",
                    !.timeoutId = IF ms > 0 THEN "armed" ELSE "unset",
                    !.timeoutDelay = ms ]

\* steps are the statements of the script that have run before the
\* caller's code: "setup" is _setup_sandbox(), "del" is del _setup_sandbox,
\* "chdir" is os.chdir(targetDir); intercepted are the modules whose
\* primitives _setup_sandbox has replaced.  payload is the text between the
\* quotes of b64decode('...') and source the text handed to exec(), both as
\* character codes, where the source text is modelled character by
\* character.
NoGuest ==
    [ stage |-> "none", ip |-> 1, dirs |-> <<>>, cwd |-> <<>>,
      stderrOk |-> TRUE, last |-> NoCall, lastOp |-> "", lastPaths |-> <<>>,
      uncaught |-> FALSE, steps |-> <<>>, intercepted |-> {},
      payload |-> <<>>, source |-> <<>> ]

\* The Python installation the script runs on.  lacks are the modules among
\* shutil, pathlib and tempfile whose interceptions cannot be installed
\* (the import, or the subclassing of pathlib.Path, raises); setup is
\* "raise" when the os module lacks one of the primitives _setup_sandbox
\* reads without a guard; chdir is "fail" when os.chdir(targetDir) raises
\* (the directory has gone, or may not be entered).
OptionalModules == {"shutil", "pathlib", "tempfile"}

Python(lacks, setup, chdir) == [lacks |-> lacks, setup |-> setup, chdir |-> chdir]

TypicalPython == Python({}, "ok", "ok")

\* The modules whose primitives _setup_sandbox has replaced when it
\* returns: builtins and os always, shutil, pathlib and tempfile unless
\* their try block was left through its except clause.
InterceptedModules(py) == {"builtins", "os"} \cup (OptionalModules \ py.lacks)

hostVars == << pc, parsed, timeout_ms, workspaceDir, resolvedTargetDir,
               tempExists, tempCreated, rmAttempts, logged, pending,
               spawned, probe, proc, runResult, finalResult, result >>

inputVars == << entry, args, platform, hostEnv, interp >>

\* What lies outside the request at hand.
outsideVars == << peer, installed >>

\* No second request.
NoPeer ==
    [ stage |-> "none",
      workspace |-> [mode |-> "none", abs |-> FALSE, segs |-> <<>>],
      target |-> NoTarget,
      workDir |-> <<>> ]

(***************************************************************************)
(* executePythonCode, up to the first await.                               *)
(***************************************************************************)
\* path.relative(base, p): the names that climb out of base, then the rest.
RECURSIVE CommonPrefixLen(_, _)
CommonPrefixLen(a, b) ==
    IF a = <<>> \/ b = <<>> \/ Head(a) # Head(b) THEN 0
    ELSE 1 + CommonPrefixLen(Tail(a), Tail(b))

Relative(base, p) ==
    LET k == CommonPrefixLen(base, p)
    IN  [i \in 1..(Len(base) - k) |-> ".."] \o SubSeq(p, k + 1, Len(p))

\* relativeToBase.startsWith('..') || path.isAbsolute(relativeToBase)
EscapesBaseByDepth(base, p) == Len(p) < Len(base)

EscapesBase(base, p) ==
    LET rel == Relative(base, p)
    IN  rel # <<>> /\ Head(rel) = ".."

\* The workspace directory of a custom path.
CustomWorkspaceDirAsGiven(w) ==
    IF w.abs THEN w.segs ELSE Normalize(<<>>, Cwd \o w.segs)

CustomWorkspaceDir(w) ==
    IF w.abs THEN Normalize(<<>>, w.segs)        \* path.normalize(workspace)
    ELSE Normalize(<<>>, Cwd \o w.segs)          \* path.resolve(cwd, workspace)

\* os.homedir(): the value of HOME when it is set; otherwise the entry of
\* the user in the password database, and a SystemError when the user has
\* none.  (On Windows the profile directory of the process is at hand.)
HomedirOutcomes(h, plat) ==
    IF plat = "linux" /\ h["HOME"] = "" THEN {"ok", "throws"} ELSE {"ok"}

\* The code up to the first await.  It stands outside the try block of
\* executePythonCode: an exception here leaves the async function, whose
\* promise is rejected (pc "rejected").
ExecutePythonCode ==
    /\ pc = "call"
    /\ entry = "executePythonCode"
    /\ IF ~SchemaOk(args)
       THEN /\ result' = Res(TRUE, "InvalidArguments")
            /\ pc' = "done"
            /\ UNCHANGED << parsed, timeout_ms, workspaceDir >>
       ELSE LET d == ParsedData(args)
                w == d.workspace
            IN  /\ parsed' = d
                /\ timeout_ms' = EffectiveTimeout(d)
                /\ IF w.mode = "persistent"
                   THEN \E home \in HomedirOutcomes(hostEnv, platform) :
                           IF home = "throws"
                           THEN /\ pc' = "rejected"
                                /\ UNCHANGED << workspaceDir, result >>
                           ELSE /\ workspaceDir' = PersistentDir
                                /\ pc' = "ws_mkdir"
                                /\ UNCHANGED result
                   ELSE IF w.mode = "temp"
                   THEN /\ workspaceDir' = tempDir
                        /\ pc' = "mk_temp"
                        /\ UNCHANGED result
                   ELSE IF ~w.abs /\ EscapesBase(Cwd, CustomWorkspaceDir(w))
                   THEN /\ result' = Res(TRUE, "WorkspaceEscapes")
                        /\ pc' = "done"
                        /\ UNCHANGED workspaceDir
                   ELSE /\ workspaceDir' = CustomWorkspaceDir(w)
                        /\ pc' = "ws_mkdir"
                        /\ UNCHANGED result
    /\ UNCHANGED << resolvedTargetDir, tempExists, tempCreated, rmAttempts,
                    logged, pending, spawned, probe, proc, runResult,
                    finalResult, guest, touched >>
    /\ UNCHANGED << inputVars, disk, outsideVars >>

\* try { await fs.mkdir(workspaceDir, ...) } catch (error) { return ... }
AfterWorkspaceMkdirGoesOn(ok) == "mk_temp"

AfterWorkspaceMkdir(ok) == IF ok THEN "mk_temp" ELSE "done"

\* await fs.mkdir(workspaceDir, { recursive: true }) of the persistent and
\* the custom workspace: on an error the request returns at once.
WorkspaceMkdir ==
    /\ pc = "ws_mkdir"
    /\ \E ok \in BOOLEAN :
          /\ pc' = AfterWorkspaceMkdir(ok)
          /\ disk' = IF ok THEN disk \cup {workspaceDir} ELSE disk
          /\ IF ok THEN UNCHANGED result
             ELSE result' = Res(TRUE, "WorkspaceError")
    /\ UNCHANGED << parsed, timeout_ms, workspaceDir, resolvedTargetDir,
                    tempExists, tempCreated, rmAttempts, logged, pending,
                    spawned, probe, proc, runResult, finalResult, guest, touched >>
    /\ UNCHANGED << inputVars, outsideVars >>

(***************************************************************************)
(* executePythonCode: the try block up to the script file.                 *)
(***************************************************************************)
\* p is dir or lies below it.
IsUnder(p, dir) == Len(p) >= Len(dir) /\ SubSeq(p, 1, Len(dir)) = dir

\* What is left of the entries d once the tree at dir is removed.
RemoveTree(d, dir) == { p \in d : ~IsUnder(p, dir) }

\* The directory the cleanup removes: fs.rm(tempDir, ...)
CleanupTargetWorkspace(ws) == ws

CleanupTarget(ws) == tempDir

\* await fs.rm(tempDir, { recursive: true, force: true }): with force a
\* missing directory is no error; a directory on disk may fail to go.
RmOutcomesWithoutForce == IF tempExists THEN {"ok", "fail"} ELSE {"fail"}

RmOutcomes == IF tempExists THEN {"ok", "fail"} ELSE {"ok"}

\* Whether the exit path at a site awaits fs.rm(tempDir) before it returns:
\* every one of them does.
ExitPathRemovesButStat(site) == site # "rm_missing"

ExitPathRemoves(site) == TRUE

\* The outcomes of the fs.rm of an exit path.
RmAt(site) == IF ExitPathRemoves(site) THEN RmOutcomes ELSE {"skipped"}

Attempted(o) == IF o = "skipped" THEN 0 ELSE 1

\* await fs.mkdir(tempDir, { recursive: true })
MkdirTemp ==
    /\ pc = "mk_temp"
    /\ \E ok \in BOOLEAN :
          IF ok
          THEN /\ tempExists' = TRUE
               /\ tempCreated' = TRUE
               /\ disk' = disk \cup {tempDir}
               /\ pc' = "mk_pkgs"
               /\ UNCHANGED pending
          ELSE /\ pending' = "mkdir"
               /\ pc' = "catch"
               /\ UNCHANGED << tempExists, tempCreated, disk >>
    /\ UNCHANGED << parsed, timeout_ms, workspaceDir, resolvedTargetDir,
                    rmAttempts, logged, spawned, probe, proc, runResult,
                    finalResult, result, guest, touched >>
    /\ UNCHANGED << inputVars, outsideVars >>

\* !resolvedTargetDir: the field is missing or is the empty string.
TargetAbsent(t) == ~t.given \/ (~t.abs /\ t.segs = <<>>)

\* resolvedTargetDir: target_directory when given (made absolute against
\* process.cwd()), otherwise the workspace directory.
ResolveTargetDirUnlessPersistent(d, ws) ==
    IF TargetAbsent(d.target_directory) \/ d.workspace.mode = "persistent" THEN ws
    ELSE IF d.target_directory.abs THEN d.target_directory.segs
    ELSE Normalize(<<>>, Cwd \o d.target_directory.segs)

ResolveTargetDir(d, ws) ==
    IF TargetAbsent(d.target_directory) THEN ws
    ELSE IF d.target_directory.abs THEN d.target_directory.segs
    ELSE Normalize(<<>>, Cwd \o d.target_directory.segs)

\* await fs.mkdir(packagesDir, { recursive: true }), then the target
\* directory is resolved and fs.stat is issued.
MkdirPackages ==
    /\ pc = "mk_pkgs"
    /\ \E ok \in BOOLEAN :
          IF ok
          THEN /\ resolvedTargetDir' = ResolveTargetDir(parsed, workspaceDir)
               /\ disk' = disk \cup {packagesDir}
               /\ pc' = "stat"
               /\ UNCHANGED pending
          ELSE /\ pending' = "mkdir"
               /\ pc' = "catch"
               /\ UNCHANGED << resolvedTargetDir, disk >>
    /\ UNCHANGED << parsed, timeout_ms, workspaceDir, tempExists, tempCreated,
                    rmAttempts, logged, spawned, probe, proc, runResult,
                    finalResult, result, guest, touched >>
    /\ UNCHANGED << inputVars, outsideVars >>

\* What fs.stat can find: a directory the request made itself is a
\* directory; a directory named by the caller may be anything.
StatOutcomes ==
    IF TargetAbsent(parsed.target_directory) THEN {"dir"}
    ELSE {"dir", "file", "missing"}

\* const stats = await fs.stat(resolvedTargetDir)
StatTarget ==
    /\ pc = "stat"
    /\ \E found \in StatOutcomes :
          pc' = IF found = "dir" THEN "write"
                ELSE IF found = "file" THEN "rm_notdir"
                ELSE "rm_missing"
    /\ UNCHANGED << parsed, timeout_ms, workspaceDir, resolvedTargetDir,
                    tempExists, tempCreated, rmAttempts, logged, pending,
                    spawned, probe, proc, runResult, finalResult, result,
                    guest, touched >>
    /\ UNCHANGED << inputVars, disk, outsideVars >>

\* if (!stats.isDirectory()) { await fs.rm(tempDir, ...); return error }
\* An error of this fs.rm lands in the catch of the stat block.
RmNotDirectory ==
    /\ pc = "rm_notdir"
    /\ \E o \in RmAt("rm_notdir") :
          /\ rmAttempts' = rmAttempts + Attempted(o)
          /\ disk' = IF o = "ok"
                   THEN RemoveTree(disk, CleanupTarget(workspaceDir))
                   ELSE disk
          /\ IF o # "fail"
             THEN /\ tempExists' = IF o = "ok" THEN FALSE ELSE tempExists
                  /\ result' = Res(TRUE, "TargetNotDirectory")
                  /\ pc' = "done"
             ELSE /\ pc' = "rm_missing"
                  /\ UNCHANGED << tempExists, result >>
    /\ UNCHANGED << parsed, timeout_ms, workspaceDir, resolvedTargetDir,
                    tempCreated, logged, pending, spawned, probe, proc,
                    runResult, finalResult, guest, touched >>
    /\ UNCHANGED << inputVars, outsideVars >>

\* catch { await fs.rm(tempDir, ...); return 'Target directory does not exist' }
\* An error of this fs.rm reaches the outer catch.
RmTargetMissing ==
    /\ pc = "rm_missing"
    /\ \E o \in RmAt("rm_missing") :
          /\ rmAttempts' = rmAttempts + Attempted(o)
          /\ disk' = IF o = "ok"
                   THEN RemoveTree(disk, CleanupTarget(workspaceDir))
                   ELSE disk
          /\ IF o # "fail"
             THEN /\ tempExists' = IF o = "ok" THEN FALSE ELSE tempExists
                  /\ result' = Res(TRUE, "TargetMissing")
                  /\ pc' = "done"
                  /\ UNCHANGED pending
             ELSE /\ pending' = "rm"
                  /\ pc' = "catch"
                  /\ UNCHANGED << tempExists, result >>
    /\ UNCHANGED << parsed, timeout_ms, workspaceDir, resolvedTargetDir,
                    tempCreated, logged, spawned, probe, proc, runResult,
                    finalResult, guest, touched >>
    /\ UNCHANGED << inputVars, outsideVars >>

\* generatePythonWrapper(code, resolvedTargetDir, tempDir): the two allowed
\* directories and the caller's code are fixed in the script.
generatePythonWrapper(userCode, targetDir, scratch) ==
    [ NoGuest EXCEPT !.dirs = <<targetDir, scratch>> ]

\* await fs.writeFile(scriptPath, wrapperCode); then the installer is
\* entered when packages were asked for, the runner otherwise.  Both begin
\* with findPythonCommand.
WriteScript ==
    /\ pc = "write"
    /\ \E ok \in BOOLEAN :
          IF ok
          THEN /\ guest' = generatePythonWrapper(parsed.code, resolvedTargetDir, tempDir)
               /\ pc' = "find"
               /\ probe' = [ for |-> IF Len(parsed.install_packages) > 0
                                     THEN "install" ELSE "exec",
                             idx |-> 1, phase |-> "spawn", cmd |-> "" ]
               /\ disk' = disk \cup {scriptPath}
               /\ UNCHANGED pending
          ELSE /\ pending' = "writeFile"
               /\ pc' = "catch"
               /\ UNCHANGED << guest, probe, disk >>
    /\ UNCHANGED << parsed, timeout_ms, workspaceDir, resolvedTargetDir,
                    tempExists, tempCreated, rmAttempts, logged, spawned,
                    proc, runResult, finalResult, result, touched >>
    /\ UNCHANGED << inputVars, outsideVars >>

(***************************************************************************)
(* findPythonCommand.                                                      *)
(***************************************************************************)
Spawned(kind, cmd, env) == [kind |-> kind, cmd |-> cmd, env |-> env]

\* const proc = spawn(cmd, ['--version']) for the next command of the list.
FindPythonSpawn ==
    /\ pc = "find"
    /\ probe.phase = "spawn"
    /\ spawned' = Append(spawned, Spawned("probe", Commands[probe.idx],
                                          ProbeEnv(hostEnv)))
    /\ probe' = [probe EXCEPT !.phase = "wait"]
    /\ UNCHANGED << pc, parsed, timeout_ms, workspaceDir, resolvedTargetDir,
                    tempExists, tempCreated, rmAttempts, logged, pending,
                    proc, runResult, finalResult, result, guest, touched >>
    /\ UNCHANGED << inputVars, disk, outsideVars >>

\* The probe resolves: true for exit code 0 and a version of 3 or more,
\* false otherwise (other exit code, other version, error event, 5 s timer).
\* With no command left the caller returns its "Python is not installed"
\* error.
FindPythonSettles ==
    /\ pc = "find"
    /\ probe.phase = "wait"
    /\ \E isPython3 \in BOOLEAN :
          IF isPython3
          THEN /\ probe' = [probe EXCEPT !.phase = "found",
                                         !.cmd = Commands[probe.idx]]
               /\ pc' = IF probe.for = "install" THEN "install_validate"
                        ELSE "exec_spawn"
               /\ UNCHANGED runResult
          ELSE IF probe.idx < Len(Commands)
          THEN /\ probe' = [probe EXCEPT !.phase = "spawn", !.idx = probe.idx + 1]
               /\ UNCHANGED << pc, runResult >>
          ELSE /\ probe' = [probe EXCEPT !.phase = "none"]
               /\ runResult' = Res(TRUE, "PythonNotFound")
               /\ pc' = IF probe.for = "install" THEN "install_ret" ELSE "exec_ret"
    /\ UNCHANGED << parsed, timeout_ms, workspaceDir, resolvedTargetDir,
                    tempExists, tempCreated, rmAttempts, logged, pending,
                    spawned, proc, finalResult, result, guest, touched >>
    /\ UNCHANGED << inputVars, disk, outsideVars >>

(***************************************************************************)
(* installPythonPackages.                                                  *)
(***************************************************************************)
\* The two checks of the validation loop on one specifier: "dash" for
\* pkg.startsWith('-'), "regex" for !PACKAGE_NAME_REGEX.test(pkg).
InstallerCheck(pkg) ==
    IF StartsWith(pkg, <<"-">>) THEN "dash"
    ELSE IF ~PACKAGE_NAME_REGEX(pkg) THEN "regex"
    ELSE "ok"

\* The validation loop, then spawn(pythonCmd, ['-m', 'pip', 'install',
\* '--target', packagesDir, ...packages], { env }) and the deadline timer.
InstallValidateSpawn ==
    /\ pc = "install_validate"
    /\ LET pkgs == parsed.install_packages
           bad == {i \in 1..Len(pkgs) : InstallerCheck(pkgs[i]) # "ok"}
           first == CHOOSE i \in bad : \A j \in bad : i <= j
       IN  IF bad # {}
           THEN /\ runResult' = [ Res(TRUE, "InvalidPackageName")
                                    EXCEPT !.pkg = pkgs[first],
                                           !.cause = InstallerCheck(pkgs[first]) ]
                /\ pc' = "install_ret"
                /\ UNCHANGED << spawned, proc >>
           ELSE \E started \in BOOLEAN :
                /\ spawned' = Append(spawned, Spawned("installer", probe.cmd,
                                                      InstallerEnv(hostEnv, platform)))
                /\ proc' = NewProc("installer", started, timeout_ms)
                /\ pc' = "install_run"
                /\ UNCHANGED runResult
    /\ UNCHANGED << parsed, timeout_ms, workspaceDir, resolvedTargetDir,
                    tempExists, tempCreated, rmAttempts, logged, pending,
                    probe, finalResult, result, guest, touched >>
    /\ UNCHANGED << inputVars, disk, outsideVars >>

(***************************************************************************)
(* The process runner: the event handlers installPythonPackages and        *)
(* executePythonScript attach to the subprocess, and what the subprocess   *)
(* and the operating system do.                                            *)
(***************************************************************************)
Running == pc \in {"install_run", "exec_run"}

\* The runner's promise is settled and its caller has not gone on yet.
Returned == pc \in {"install_ret", "exec_ret"}

RetOf(p) == IF p = "install_run" THEN "install_ret" ELSE "exec_ret"

\* if (timeoutId) clearTimeout(timeoutId)
ClearedNever(t) == t

Cleared(t) == IF t = "armed" THEN "cleared" ELSE t

\* 'close' comes after the process has ended and its output streams are
\* closed: every chunk has been delivered and no descendant holds a stream.
\* ('exit' comes as soon as the process has ended.)
ProcessExited(p) == p.os = "exited"

StreamsClosed(p) ==
    /\ p.os = "exited"
    /\ p.pipeOut = <<>>
    /\ p.pipeErr = <<>>
    /\ ~p.shared

\* The streams of a process that could not be created are closed once its
\* 'error' event has been emitted.
ClosedAfterError(p) == p.os = "failed" /\ p.errored

\* resolve(value) of the runner's promise: the first call settles it, a
\* later call does nothing.
ResolveLastWins(settled, current, value) == value

Resolve(settled, current, value) == IF settled THEN current ELSE value

\* A chunk of output: the n-th the process wrote, one line of text.
Chunk(n, text) == [n |-> n, text |-> text]

\* The lines pip may write: one of the kept kinds, a progress line, white space.
InstallerLines == {"Collecting ", "Downloading", " "}

\* text.trim() is empty
IsBlank(chunks) == \A i \in 1..Len(chunks) : chunks[i].text = " "

NonEmpty(c) == c.text # " "

\* trimmed.startsWith('Successfully installed') || ... || startsWith('Collecting ')
Meaningful(c) == c.text = "Collecting "

\* lines.slice(-n)
LastLines(lines, n) ==
    IF Len(lines) <= n THEN lines
    ELSE SubSeq(lines, Len(lines) - n + 1, Len(lines))

\* The installation summary: the meaningful lines of stdout, or its last
\* five non-empty lines when there is none.
Summary(chunks) ==
    IF SelectSeq(chunks, Meaningful) # <<>>
    THEN SelectSeq(chunks, Meaningful)
    ELSE LastLines(SelectSeq(chunks, NonEmpty), 5)

\* The close handler's result for the installer.
InstallCloseResult(p, ms) ==
    IF p.isTimedOut
    THEN [Res(TRUE, "InstallTimeout") EXCEPT !.ms = ms]
    ELSE IF p.exitCode # "0"
    THEN [Res(TRUE, "InstallFailed") EXCEPT !.out = p.stdout, !.err = p.stderr]
    ELSE [Res(FALSE, "InstallOk") EXCEPT !.out = Summary(p.stdout)]

\* Success: stdout, and stderr if (stderr && stderr.trim()).
SuccessStderr(chunks) == IF IsBlank(chunks) THEN <<>> ELSE chunks

\* The close handler's result for the guest script.
ExecCloseResultByExitCode(p, ms) ==
    IF p.exitCode # "0"
    THEN [Res(TRUE, "ExecFailed") EXCEPT !.exit = p.exitCode,
                                         !.out = p.stdout, !.err = p.stderr]
    ELSE [Res(FALSE, "Success") EXCEPT !.out = p.stdout,
                                       !.err = SuccessStderr(p.stderr)]

ExecCloseResult(p, ms) ==
    IF p.isTimedOut
    THEN [Res(TRUE, "Timeout") EXCEPT !.ms = ms, !.out = p.stdout, !.err = p.stderr]
    ELSE IF p.exitCode # "0"
    THEN [Res(TRUE, "ExecFailed") EXCEPT !.exit = p.exitCode,
                                         !.out = p.stdout, !.err = p.stderr]
    ELSE [Res(FALSE, "Success") EXCEPT !.out = p.stdout,
                                       !.err = SuccessStderr(p.stderr)]

CloseResult(p, ms) ==
    IF p.kind = "installer" THEN InstallCloseResult(p, ms) ELSE ExecCloseResult(p, ms)

\* The error handler's result.
ErrorResultAsFailure(p) ==
    IF p.kind = "installer" THEN Res(TRUE, "InstallSpawnError")
    ELSE [Res(TRUE, "ExecFailed") EXCEPT !.exit = p.exitCode]

ErrorResult(p) ==
    IF p.kind = "installer" THEN Res(TRUE, "InstallSpawnError")
    ELSE Res(TRUE, "SpawnError")

runnerFrame == << parsed, timeout_ms, workspaceDir, resolvedTargetDir,
                  tempExists, tempCreated, rmAttempts, logged, pending,
                  spawned, probe, finalResult, result >>

\* pip writes a chunk to one of its output streams.
InstallerWrites ==
    /\ Running
    /\ proc.kind = "installer"
    /\ proc.os = "running"
    /\ proc.wrote < MaxChunks
    /\ \E stream \in {"out", "err"}, line \in InstallerLines :
          proc' = [proc EXCEPT
                     !.wrote = proc.wrote + 1,
                     !.pipeOut = IF stream = "out"
                                 THEN Append(proc.pipeOut, Chunk(proc.wrote + 1, line))
                                 ELSE proc.pipeOut,
                     !.pipeErr = IF stream = "err"
                                 THEN Append(proc.pipeErr, Chunk(proc.wrote + 1, line))
                                 ELSE proc.pipeErr]
    /\ UNCHANGED << pc, runResult, guest, touched >>
    /\ UNCHANGED runnerFrame
    /\ UNCHANGED << inputVars, disk, outsideVars >>

\* pip exits of its own accord.
InstallerExits ==
    /\ Running
    /\ proc.kind = "installer"
    /\ proc.os = "running"
    /\ \E code \in {"0", "1"} :
          proc' = [proc EXCEPT !.os = "exited", !.exitCode = code]
    /\ UNCHANGED << pc, runResult, guest, touched >>
    /\ UNCHANGED runnerFrame
    /\ UNCHANGED << inputVars, disk, outsideVars >>

Received(sig) == \E i \in 1..Len(proc.signals) : proc.signals[i] = sig

\* SIGTERM ends the process, unless the process ignores or handles it.
ProcessTerminated ==
    /\ Running
    /\ proc.os = "running"
    /\ Received("SIGTERM")
    /\ proc' = [proc EXCEPT !.os = "exited", !.signalCode = "SIGTERM"]
    /\ guest' = IF proc.kind = "guest" THEN [guest EXCEPT !.stage = "exited"] ELSE guest
    /\ UNCHANGED << pc, runResult, touched >>
    /\ UNCHANGED runnerFrame
    /\ UNCHANGED << inputVars, disk, outsideVars >>

\* SIGKILL ends the process.
ProcessKilled ==
    /\ Running
    /\ proc.os = "running"
    /\ Received("SIGKILL")
    /\ proc' = [proc EXCEPT !.os = "exited", !.signalCode = "SIGKILL"]
    /\ guest' = IF proc.kind = "guest" THEN [guest EXCEPT !.stage = "exited"] ELSE guest
    /\ UNCHANGED << pc, runResult, touched >>
    /\ UNCHANGED runnerFrame
    /\ UNCHANGED << inputVars, disk, outsideVars >>

\* A descendant of the process that held its output streams exits.
DescendantExits ==
    /\ Running
    /\ proc.shared
    /\ proc' = [proc EXCEPT !.shared = FALSE]
    /\ UNCHANGED << pc, runResult, guest, touched >>
    /\ UNCHANGED runnerFrame
    /\ UNCHANGED << inputVars, disk, outsideVars >>

\* proc.stdout.on('data', ...): stdout += data
OnStdoutData ==
    /\ Running
    /\ proc.pipeOut # <<>>
    /\ proc' = [proc EXCEPT !.stdout = Append(proc.stdout, Head(proc.pipeOut)),
                            !.pipeOut = Tail(proc.pipeOut)]
    /\ UNCHANGED << pc, runResult, guest, touched >>
    /\ UNCHANGED runnerFrame
    /\ UNCHANGED << inputVars, disk, outsideVars >>

\* proc.stderr.on('data', ...): stderr += data
OnStderrData ==
    /\ Running
    /\ proc.pipeErr # <<>>
    /\ proc' = [proc EXCEPT !.stderr = Append(proc.stderr, Head(proc.pipeErr)),
                            !.pipeErr = Tail(proc.pipeErr)]
    /\ UNCHANGED << pc, runResult, guest, touched >>
    /\ UNCHANGED runnerFrame
    /\ UNCHANGED << inputVars, disk, outsideVars >>

\* The deadline timer: isTimedOut = true; proc.kill('SIGTERM'); the grace
\* timer is started.  kill() sends nothing to a process that has exited.
\* The 'error' event of a failed spawn comes before any timer.
OnDeadline ==
    /\ proc.os # "failed"
    /\ proc.timeoutId = "armed"
    /\ proc' = [proc EXCEPT
                  !.timeoutId = "fired",
                  !.isTimedOut = TRUE,
                  !.kills = Append(proc.kills, "SIGTERM"),
                  !.signals = IF proc.os = "running"
                              THEN Append(proc.signals, "SIGTERM")
                              ELSE proc.signals,
                  !.killTimeoutId = "armed",
                  !.killDelay = KILL_GRACE_PERIOD_MS]
    /\ UNCHANGED << pc, runResult, guest, touched >>
    /\ UNCHANGED runnerFrame
    /\ UNCHANGED << inputVars, disk, outsideVars >>

\* if (proc.exitCode === null && proc.signalCode === null)
ShouldForceKillAlways(p) == TRUE

ShouldForceKill(p) == p.exitCode = "null" /\ p.signalCode = "null"

\* The grace timer: proc.kill('SIGKILL') if the process has not exited.
OnGrace ==
    /\ proc.killTimeoutId = "armed"
    /\ proc' = [proc EXCEPT
                  !.killTimeoutId = "fired",
                  !.kills = IF ShouldForceKill(proc)
                            THEN Append(proc.kills, "SIGKILL")
                            ELSE proc.kills,
                  !.signals = IF ShouldForceKill(proc) /\ proc.os = "running"
                              THEN Append(proc.signals, "SIGKILL")
                              ELSE proc.signals]
    /\ UNCHANGED << pc, runResult, guest, touched >>
    /\ UNCHANGED runnerFrame
    /\ UNCHANGED << inputVars, disk, outsideVars >>

\* proc.on('error', ...): the process could not be created.  Both timers are
\* cleared and the promise resolves with the failure.
OnError ==
    /\ Running
    /\ proc.os = "failed"
    /\ ~proc.errored
    /\ proc' = [proc EXCEPT !.errored = TRUE, !.resolved = TRUE,
                            !.timeoutId = Cleared(proc.timeoutId),
                            !.killTimeoutId = Cleared(proc.killTimeoutId)]
    /\ runResult' = Resolve(proc.resolved, runResult, ErrorResult(proc))
    /\ pc' = RetOf(pc)
    /\ UNCHANGED << guest, touched >>
    /\ UNCHANGED runnerFrame
    /\ UNCHANGED << inputVars, disk, outsideVars >>

\* proc.on('close', ...): the process has exited and its streams are
\* closed, so every chunk has been delivered.  Both timers are cleared and
\* the promise resolves with the outcome.  For a process that could not be
\* created 'close' follows 'error': the handler runs all the same, after
\* the promise has been settled.  It touches nothing but the runner's own
\* timers and promise, so it is placed before the caller goes on.
OnClose ==
    /\ \/ Running /\ StreamsClosed(proc)
       \/ Returned /\ ClosedAfterError(proc)
    /\ ~proc.closed
    /\ proc' = [proc EXCEPT !.closed = TRUE, !.resolved = TRUE,
                            !.timeoutId = Cleared(proc.timeoutId),
                            !.killTimeoutId = Cleared(proc.killTimeoutId)]
    /\ runResult' = Resolve(proc.resolved, runResult, CloseResult(proc, timeout_ms))
    /\ pc' = IF Running THEN RetOf(pc) ELSE pc
    /\ UNCHANGED << guest, touched >>
    /\ UNCHANGED runnerFrame
    /\ UNCHANGED << inputVars, disk, outsideVars >>

(***************************************************************************)
(* executePythonCode after the installer; executePythonScript.             *)
(***************************************************************************)
\* if (installResult.isError)
InstallFailedNever(r) == FALSE

InstallFailed(r) == r.isError

\* installPythonPackages has returned.  Called on its own it hands its
\* result to the caller; inside executePythonCode a failure leads to the
\* cleanup and a success to executePythonScript.
InstallReturns ==
    /\ pc = "install_ret"
    /\ IF entry = "installPythonPackages"
       THEN /\ result' = runResult
            /\ pc' = "done"
            /\ UNCHANGED probe
       ELSE IF InstallFailed(runResult)
       THEN /\ pc' = "rm_install"
            /\ UNCHANGED << probe, result >>
       ELSE /\ pc' = "find"
            /\ probe' = [for |-> "exec", idx |-> 1, phase |-> "spawn", cmd |-> ""]
            /\ UNCHANGED result
    /\ proc' = NoProc
    /\ UNCHANGED << parsed, timeout_ms, workspaceDir, resolvedTargetDir,
                    tempExists, tempCreated, rmAttempts, logged, pending,
                    spawned, runResult, finalResult, guest, touched >>
    /\ UNCHANGED << inputVars, disk, outsideVars >>

\* if (installResult.isError) { await fs.rm(tempDir, ...); return installResult }
\* An error of this fs.rm reaches the outer catch.
RmAfterInstallError ==
    /\ pc = "rm_install"
    /\ \E o \in RmAt("rm_install") :
          /\ rmAttempts' = rmAttempts + Attempted(o)
          /\ disk' = IF o = "ok"
                   THEN RemoveTree(disk, CleanupTarget(workspaceDir))
                   ELSE disk
          /\ IF o # "fail"
             THEN /\ tempExists' = IF o = "ok" THEN FALSE ELSE tempExists
                  /\ result' = runResult
                  /\ pc' = "done"
                  /\ UNCHANGED pending
             ELSE /\ pending' = "rm"
                  /\ pc' = "catch"
                  /\ UNCHANGED << tempExists, result >>
    /\ UNCHANGED << parsed, timeout_ms, workspaceDir, resolvedTargetDir,
                    tempCreated, logged, spawned, probe, proc, runResult,
                    finalResult, guest, touched >>
    /\ UNCHANGED << inputVars, outsideVars >>

\* executePythonScript: spawn(pythonCmd, [scriptPath], { env }) with
\* PYTHONPATH set to packagesDir, and the deadline timer.
ExecSpawn ==
    /\ pc = "exec_spawn"
    /\ \E started \in BOOLEAN :
          /\ spawned' = Append(spawned,
                 Spawned("guest", probe.cmd,
                         GuestEnv(hostEnv, platform, PackagesDirValue)))
          /\ proc' = NewProc("guest", started, timeout_ms)
          /\ guest' = [guest EXCEPT !.stage = IF started THEN "start" ELSE "none"]
    /\ pc' = "exec_run"
    /\ UNCHANGED << parsed, timeout_ms, workspaceDir, resolvedTargetDir,
                    tempExists, tempCreated, rmAttempts, logged, pending,
                    probe, runResult, finalResult, result, touched >>
    /\ UNCHANGED << inputVars, disk, outsideVars >>

\* text.replace(/\\/g, '/')
ForwardSlashes(text) ==
    [i \in 1..Len(text) |-> IF text[i] = "\\" THEN "/" ELSE text[i]]

\* list.join(sep)
RECURSIVE Join(_, _)
Join(list, sep) ==
    IF list = <<>> THEN <<>>
    ELSE IF Len(list) = 1 THEN Head(list)
    ELSE Head(list) \o sep \o Join(Tail(list), sep)

\* '\nWorkspace: file://...' + '\nTimeout: ...ms' + '\nInstalled packages: ...'
ExecutionDetails(d) ==
    [ present |-> TRUE,
      workspace |-> <<"f", "i", "l", "e", ":", "/", "/">>
                    \o ForwardSlashes(PathText(resolvedTargetDir, platform)),
      timeout |-> timeout_ms,
      listed |-> d.install_packages # <<>>,
      packages |-> Join(d.install_packages, <<",", " ">>) ]

\* The execution-details trailer of return_format "detailed".
FormatResultWhenDetailed(d, r) ==
    IF d.return_format = "detailed"
    THEN [r EXCEPT !.trailer = ExecutionDetails(d)]
    ELSE r

FormatResult(d, r) ==
    IF d.return_format = "detailed" /\ ~r.isError
    THEN [r EXCEPT !.trailer = ExecutionDetails(d)]
    ELSE r

\* executePythonScript has returned: finalResult is formatted.
ExecReturns ==
    /\ pc = "exec_ret"
    /\ finalResult' = FormatResult(parsed, runResult)
    /\ pc' = "cleanup"
    /\ proc' = NoProc
    /\ UNCHANGED << parsed, timeout_ms, workspaceDir, resolvedTargetDir,
                    tempExists, tempCreated, rmAttempts, logged, pending,
                    spawned, probe, runResult, result, guest, touched >>
    /\ UNCHANGED << inputVars, disk, outsideVars >>

\* What is returned after the final cleanup: finalResult, whether fs.rm
\* succeeded or not.
AfterCleanupSurfacing(final, ok) ==
    IF ok THEN final ELSE [Res(TRUE, "FailedToExecute") EXCEPT !.cause = "rm"]

AfterCleanup(final, ok) == final

\* try { await fs.rm(tempDir, ...) } catch (cleanupError) { console.error(...) }
\* return finalResult
Cleanup ==
    /\ pc = "cleanup"
    /\ \E o \in RmAt("cleanup") :
          /\ rmAttempts' = rmAttempts + Attempted(o)
          /\ disk' = IF o = "ok"
                   THEN RemoveTree(disk, CleanupTarget(workspaceDir))
                   ELSE disk
          /\ tempExists' = IF o = "ok" THEN FALSE ELSE tempExists
          /\ logged' = IF o = "fail" THEN logged + 1 ELSE logged
          /\ result' = AfterCleanup(finalResult, o # "fail")
    /\ pc' = "done"
    /\ UNCHANGED << parsed, timeout_ms, workspaceDir, resolvedTargetDir,
                    tempCreated, pending, spawned, probe, proc, runResult,
                    finalResult, guest, touched >>
    /\ UNCHANGED << inputVars, outsideVars >>

\* The outer catch: fs.rm(tempDir) in its own try/catch, then the error
\* 'Failed to execute Python code: <message>'.
CatchCleanup ==
    /\ pc = "catch"
    /\ \E o \in RmAt("catch") :
          /\ rmAttempts' = rmAttempts + Attempted(o)
          /\ disk' = IF o = "ok"
                   THEN RemoveTree(disk, CleanupTarget(workspaceDir))
                   ELSE disk
          /\ tempExists' = IF o = "ok" THEN FALSE ELSE tempExists
          /\ logged' = IF o = "fail" THEN logged + 1 ELSE logged
    /\ result' = [Res(TRUE, "FailedToExecute") EXCEPT !.cause = pending]
    /\ pc' = "done"
    /\ UNCHANGED << parsed, timeout_ms, workspaceDir, resolvedTargetDir,
                    tempCreated, pending, spawned, probe, proc, runResult,
                    finalResult, guest, touched >>
    /\ UNCHANGED << inputVars, outsideVars >>

(***************************************************************************)
(* The guest: the generated script runs the caller's code.                 *)
(***************************************************************************)
GuestRunning ==
    /\ pc = "exec_run"
    /\ proc.kind = "guest"
    /\ proc.os = "running"

guestFrame == << pc, runResult >>

\* An exception at the top level of the script, before exec(): the
\* interpreter prints the traceback and exits with 1.
ScriptDies(p) ==
    [p EXCEPT !.pipeErr = Append(p.pipeErr, Chunk(0, "line")),
              !.os = "exited",
              !.exitCode = "1"]

\* What follows a statement at the top level of the script: the next
\* statement, or the end of the interpreter when the statement raised.
AfterTopLevelIgnoringErrors(raised, next) == next

AfterTopLevel(raised, next) == IF raised THEN "exited" ELSE next

\* _setup_sandbox(): the primitives of os are read and replaced; the
\* interceptions of shutil, pathlib and tempfile are each installed inside
\* try/except (ImportError[, TypeError]): pass.
GuestSetupSandbox ==
    /\ GuestRunning
    /\ guest.stage = "start"
    /\ LET raised == interp.setup = "raise"
       IN  /\ guest' = [guest EXCEPT
                          !.stage = AfterTopLevel(raised, "installed"),
                          !.intercepted = IF raised THEN {}
                                          ELSE InterceptedModules(interp),
                          !.steps = IF raised THEN guest.steps
                                    ELSE Append(guest.steps, "setup")]
           /\ proc' = IF raised THEN ScriptDies(proc) ELSE proc
    /\ UNCHANGED touched
    /\ UNCHANGED guestFrame
    /\ UNCHANGED runnerFrame
    /\ UNCHANGED << inputVars, disk, outsideVars >>

\* del _setup_sandbox
GuestDelSetup ==
    /\ GuestRunning
    /\ guest.stage = "installed"
    /\ guest' = [guest EXCEPT !.stage = "hidden",
                              !.steps = Append(guest.steps, "del")]
    /\ UNCHANGED << proc, touched >>
    /\ UNCHANGED guestFrame
    /\ UNCHANGED runnerFrame
    /\ UNCHANGED << inputVars, disk, outsideVars >>

\* os.chdir(targetDir)
GuestChdir ==
    /\ GuestRunning
    /\ guest.stage = "hidden"
    /\ LET raised == interp.chdir = "fail"
       IN  /\ guest' = [guest EXCEPT
                          !.stage = AfterTopLevel(raised, "user"),
                          !.steps = IF raised THEN guest.steps
                                    ELSE Append(guest.steps, "chdir"),
                          !.cwd = IF raised THEN guest.cwd
                                  ELSE Realpath(Cand("str", TRUE, guest.dirs[1]),
                                                <<>>, platform)]
           /\ proc' = IF raised THEN ScriptDies(proc) ELSE proc
    /\ UNCHANGED touched
    /\ UNCHANGED guestFrame
    /\ UNCHANGED runnerFrame
    /\ UNCHANGED << inputVars, disk, outsideVars >>

\* What an original primitive is called with: the operation and the
\* canonical location of each path argument.
Touch(op, paths, cwd, plat) ==
    [ op |-> op,
      fd |-> paths[1].kind = "fd",
      real |-> [i \in 1..Len(paths) |->
                   IF paths[i].kind = "str" THEN Realpath(paths[i], cwd, plat)
                   ELSE <<>>] ]

\* What an original primitive leaves on disk: open, mkdir and makedirs make
\* the entry, remove, unlink and rmdir take it away, rmtree takes the tree.
GuestEffect(d, op, real) ==
    IF op \in {"open", "mkdir", "makedirs"} THEN d \cup {real}
    ELSE IF op \in {"remove", "unlink", "rmdir"} THEN d \ {real}
    ELSE IF op = "rmtree" THEN RemoveTree(d, real)
    ELSE d

\* The statement at guest.ip runs.  An exception outside try/except ends
\* exec(): the wrapper prints it and calls sys.exit(1).
GuestStatement ==
    /\ GuestRunning
    /\ guest.stage = "user"
    /\ guest.ip <= Len(parsed.code)
    /\ parsed.code[guest.ip].op # "hang"
    /\ LET st == parsed.code[guest.ip]
           r == GuestCall(st, guest.dirs, guest.cwd, platform, guest.stderrOk,
                          interp)
           dies == r.raised # "none" /\ ~st.caught
       IN  /\ guest' = [guest EXCEPT
                          !.ip = guest.ip + 1,
                          !.dirs = AllowedDirsAfter(guest.dirs, st),
                          !.stderrOk = IF st.op = "break_stderr" THEN FALSE
                                       ELSE guest.stderrOk,
                          !.last = r,
                          !.lastOp = st.op,
                          !.lastPaths = st.paths,
                          !.uncaught = dies,
                          !.stage = IF dies THEN "exited" ELSE "user"]
           /\ touched' = IF r.invoked /\ st.op \in InterceptedOps
                         THEN touched \cup {Touch(st.op, st.paths, guest.cwd, platform)}
                         ELSE touched
           /\ proc' = [proc EXCEPT
                         !.pipeOut = IF st.op = "print"
                                     THEN Append(proc.pipeOut, Chunk(guest.ip, "line"))
                                     ELSE IF dies /\ ~guest.stderrOk
                                     THEN Append(proc.pipeOut, Chunk(guest.ip, "line"))
                                     ELSE proc.pipeOut,
                         !.pipeErr = IF dies /\ guest.stderrOk
                                     THEN Append(proc.pipeErr, Chunk(guest.ip, "line"))
                                     ELSE IF st.op = "write_err"
                                     THEN Append(proc.pipeErr, Chunk(guest.ip, "line"))
                                     ELSE IF st.op = "write_err_blank"
                                     THEN Append(proc.pipeErr, Chunk(guest.ip, " "))
                                     ELSE proc.pipeErr,
                         !.shared = IF st.op = "popen" THEN TRUE ELSE proc.shared,
                         !.os = IF dies THEN "exited" ELSE "running",
                         !.exitCode = IF dies THEN "1" ELSE "null"]
           /\ disk' = IF r.invoked /\ st.op \in TempfileOps
                      THEN disk \cup
                           { TempfileEntry(IF st.how = "keyword" THEN st.paths[1]
                                           ELSE TempfileDefaultDir(tempDir,
                                                                   guest.dirs[1]),
                                           st.prefix, guest.cwd, platform) }
                      ELSE IF r.invoked /\ st.paths[1].kind = "str"
                      THEN GuestEffect(disk, st.op,
                                       Realpath(st.paths[1], guest.cwd, platform))
                      ELSE disk
           /\ tempExists' = IF /\ r.invoked
                               /\ st.op = "rmtree"
                               /\ st.paths[1].kind = "str"
                               /\ IsUnder(tempDir, Realpath(st.paths[1], guest.cwd,
                                                            platform))
                            THEN FALSE
                            ELSE tempExists
    /\ UNCHANGED guestFrame
    /\ UNCHANGED << parsed, timeout_ms, workspaceDir, resolvedTargetDir,
                    tempCreated, rmAttempts, logged, pending, spawned, probe,
                    finalResult, result >>
    /\ UNCHANGED << inputVars, outsideVars >>

\* The caller's code has run to its end: the interpreter exits with 0.
GuestFinishes ==
    /\ GuestRunning
    /\ guest.stage = "user"
    /\ guest.ip > Len(parsed.code)
    /\ guest' = [guest EXCEPT !.stage = "exited"]
    /\ proc' = [proc EXCEPT !.os = "exited", !.exitCode = "0"]
    /\ UNCHANGED touched
    /\ UNCHANGED guestFrame
    /\ UNCHANGED runnerFrame
    /\ UNCHANGED << inputVars, disk, outsideVars >>

(***************************************************************************)
(* The caller's code on its way into the script and out of it.             *)
(***************************************************************************)
\* A JavaScript string is a sequence of UTF-16 code units.  The units of
\* the model: A, the quote, the backslash, the line feed, e-acute, the euro
\* sign, and the two halves of U+1F600.
CodeUnits == {65, 39, 92, 10, 233, 8364, 55357, 56832}

IsHighSurrogate(u) == u >= 55296 /\ u <= 56319

IsLowSurrogate(u) == u >= 56320 /\ u <= 57343

PairedAt(units) ==
    /\ Len(units) >= 2
    /\ IsHighSurrogate(units[1])
    /\ IsLowSurrogate(units[2])

\* The characters of a text: a surrogate pair is one character, a
\* surrogate without its partner stands for itself.
RECURSIVE CodePoints(_)
CodePoints(units) ==
    IF units = <<>> THEN <<>>
    ELSE IF PairedAt(units)
    THEN << 65536 + (units[1] - 55296) * 1024 + (units[2] - 56320) >>
         \o CodePoints(Tail(Tail(units)))
    ELSE << units[1] >> \o CodePoints(Tail(units))

\* The UTF-8 bytes of one character.
Utf8Of(cp) ==
    IF cp < 128 THEN << cp >>
    ELSE IF cp < 2048 THEN << 192 + cp \div 64, 128 + (cp % 64) >>
    ELSE IF cp < 65536
    THEN << 224 + cp \div 4096, 128 + ((cp \div 64) % 64), 128 + (cp % 64) >>
    ELSE << 240 + cp \div 262144, 128 + ((cp \div 4096) % 64),
            128 + ((cp \div 64) % 64), 128 + (cp % 64) >>

\* What Buffer.from writes for a surrogate without its partner: U+FFFD.
ReplacementPassThrough(u) == u

Replacement(u) == 65533

\* Buffer.from(userCode, 'utf8')
RECURSIVE BufferFromUtf8(_)
BufferFromUtf8(units) ==
    IF units = <<>> THEN <<>>
    ELSE IF PairedAt(units)
    THEN Utf8Of(65536 + (units[1] - 55296) * 1024 + (units[2] - 56320))
         \o BufferFromUtf8(Tail(Tail(units)))
    ELSE IF IsHighSurrogate(units[1]) \/ IsLowSurrogate(units[1])
    THEN Utf8Of(Replacement(units[1])) \o BufferFromUtf8(Tail(units))
    ELSE Utf8Of(units[1]) \o BufferFromUtf8(Tail(units))

\* The base64 alphabet, as character codes: A-Z a-z 0-9 + /
Base64Char(i) ==
    IF i < 26 THEN 65 + i
    ELSE IF i < 52 THEN 97 + (i - 26)
    ELSE IF i < 62 THEN 48 + (i - 52)
    ELSE IF i = 62 THEN 43
    ELSE 47

Base64Pad == 61

\* buffer.toString('base64')
RECURSIVE ToBase64(_)
ToBase64(bytes) ==
    IF bytes = <<>> THEN <<>>
    ELSE IF Len(bytes) = 1
    THEN << Base64Char(bytes[1] \div 4), Base64Char((bytes[1] % 4) * 16),
            Base64Pad, Base64Pad >>
    ELSE IF Len(bytes) = 2
    THEN << Base64Char(bytes[1] \div 4),
            Base64Char((bytes[1] % 4) * 16 + bytes[2] \div 16),
            Base64Char((bytes[2] % 16) * 4), Base64Pad >>
    ELSE << Base64Char(bytes[1] \div 4),
            Base64Char((bytes[1] % 4) * 16 + bytes[2] \div 16),
            Base64Char((bytes[2] % 16) * 4 + bytes[3] \div 64),
            Base64Char((bytes[3] % 64)) >>
         \o ToBase64(SubSeq(bytes, 4, Len(bytes)))

\* The value of a character of the standard alphabet; base64.b64decode
\* discards any other character.
Base64IndexUrlSafe(c) ==
    IF c >= 65 /\ c <= 90 THEN c - 65
    ELSE IF c >= 97 /\ c <= 122 THEN c - 97 + 26
    ELSE IF c >= 48 /\ c <= 57 THEN c - 48 + 52
    ELSE IF c = 45 THEN 62
    ELSE IF c = 95 THEN 63
    ELSE 64

Base64Index(c) ==
    IF c >= 65 /\ c <= 90 THEN c - 65
    ELSE IF c >= 97 /\ c <= 122 THEN c - 97 + 26
    ELSE IF c >= 48 /\ c <= 57 THEN c - 48 + 52
    ELSE IF c = 43 THEN 62
    ELSE IF c = 47 THEN 63
    ELSE 64

RECURSIVE Sextets(_)
Sextets(chars) ==
    IF chars = <<>> THEN <<>>
    ELSE IF Base64Index(Head(chars)) = 64 THEN Sextets(Tail(chars))
    ELSE << Base64Index(Head(chars)) >> \o Sextets(Tail(chars))

RECURSIVE BytesOfSextets(_)
BytesOfSextets(v) ==
    IF Len(v) < 2 THEN <<>>
    ELSE IF Len(v) = 2 THEN << v[1] * 4 + v[2] \div 16 >>
    ELSE IF Len(v) = 3
    THEN << v[1] * 4 + v[2] \div 16, (v[2] % 16) * 16 + v[3] \div 4 >>
    ELSE << v[1] * 4 + v[2] \div 16, (v[2] % 16) * 16 + v[3] \div 4,
            (v[3] % 4) * 64 + v[4] >>
         \o BytesOfSextets(SubSeq(v, 5, Len(v)))

\* _py_executor_base64.b64decode('...')
b64decode(chars) == BytesOfSextets(Sextets(chars))

IsContinuation(b) == b >= 128 /\ b <= 191

\* What bytes.decode('utf-8') yields where the bytes are no UTF-8: the
\* UnicodeDecodeError, written as the one code past the last character.
DecodeError == << 1114112 >>

\* bytes.decode('utf-8')
RECURSIVE Utf8Decode(_)
Utf8Decode(b) ==
    IF b = <<>> THEN <<>>
    ELSE LET n == IF b[1] < 128 THEN 1
                  ELSE IF b[1] >= 194 /\ b[1] <= 223 THEN 2
                  ELSE IF b[1] >= 224 /\ b[1] <= 239 THEN 3
                  ELSE IF b[1] >= 240 /\ b[1] <= 244 THEN 4
                  ELSE 0
             cp == IF n = 1 THEN b[1]
                   ELSE IF n = 2 THEN (b[1] - 192) * 64 + (b[2] - 128)
                   ELSE IF n = 3
                   THEN (b[1] - 224) * 4096 + (b[2] - 128) * 64 + (b[3] - 128)
                   ELSE (b[1] - 240) * 262144 + (b[2] - 128) * 4096
                        + (b[3] - 128) * 64 + (b[4] - 128)
         IN  IF n = 0 \/ Len(b) < n THEN DecodeError
             ELSE IF \E i \in 2..n : ~IsContinuation(b[i]) THEN DecodeError
             ELSE IF (n = 3 /\ cp < 2048) \/ (n = 4 /\ cp < 65536) \/ cp > 1114111
             THEN DecodeError
             ELSE IF cp >= 55296 /\ cp <= 57343 THEN DecodeError
             ELSE LET rest == Utf8Decode(SubSeq(b, n + 1, Len(b)))
                  IN  IF rest = DecodeError THEN DecodeError
                      ELSE << cp >> \o rest

\* generatePythonWrapper(userCode, targetDir, tempDir) for a source text
\* given character by character: the text enters the script as
\* Buffer.from(userCode, 'utf8').toString('base64') between the quotes of
\* the b64decode call.
GenerateWrapper ==
    /\ entry = "generatePythonWrapper"
    /\ pc = "generate"
    /\ guest' = [generatePythonWrapper(<<>>, <<"x">>, tempDir) EXCEPT
                   !.payload = ToBase64(BufferFromUtf8(args))]
    /\ pc' = "generated"
    /\ UNCHANGED << parsed, timeout_ms, workspaceDir, resolvedTargetDir,
                    tempExists, tempCreated, rmAttempts, logged, pending,
                    spawned, probe, proc, runResult, finalResult, result,
                    touched >>
    /\ UNCHANGED << inputVars, disk, outsideVars >>

\* The try block of the script up to exec(): b64decode, then
\* .decode('utf-8').
GuestDecodes ==
    /\ entry = "generatePythonWrapper"
    /\ pc = "generated"
    /\ guest' = [guest EXCEPT !.source = Utf8Decode(b64decode(guest.payload))]
    /\ pc' = "decoded"
    /\ UNCHANGED << parsed, timeout_ms, workspaceDir, resolvedTargetDir,
                    tempExists, tempCreated, rmAttempts, logged, pending,
                    spawned, probe, proc, runResult, finalResult, result,
                    touched >>
    /\ UNCHANGED << inputVars, disk, outsideVars >>

(***************************************************************************)
(* _is_path_allowed called on its own.                                     *)
(***************************************************************************)
CheckPath ==
    /\ pc = "check"
    /\ entry = "_is_path_allowed"
    /\ guest' = [guest EXCEPT
                   !.last = [ NoCall EXCEPT !.verdict =
                                << is_path_allowed(guest.lastPaths[1], guest.dirs,
                                                   guest.cwd, platform,
                                                   guest.stderrOk) >> ],
                   !.stage = "checked"]
    /\ pc' = "checked"
    /\ UNCHANGED << parsed, timeout_ms, workspaceDir, resolvedTargetDir,
                    tempExists, tempCreated, rmAttempts, logged, pending,
                    spawned, probe, proc, runResult, finalResult, result,
                    touched >>
    /\ UNCHANGED << inputVars, disk, outsideVars >>

(***************************************************************************)
(* Requests.                                                               *)
(***************************************************************************)
AutoTimeout == [given |-> TRUE, auto |-> TRUE, ms |-> 0]

OmittedTimeout == [given |-> FALSE, auto |-> FALSE, ms |-> 0]

Millis(n) == [given |-> TRUE, auto |-> FALSE, ms |-> n]

NoPackages == [given |-> FALSE, list |-> <<>>]

Packages(list) == [given |-> TRUE, list |-> list]

TempWorkspace == [mode |-> "temp", abs |-> FALSE, segs |-> <<>>]

PersistentWorkspace == [mode |-> "persistent", abs |-> FALSE, segs |-> <<>>]

CustomWorkspace(abs, segs) == [mode |-> "custom", abs |-> abs, segs |-> segs]

Target(abs, segs) == [given |-> TRUE, abs |-> abs, segs |-> segs]

Code(stmts) == [blank |-> FALSE, stmts |-> stmts]

BlankCode == [blank |-> TRUE, stmts |-> <<>>]

Request(code, target, timeout, packages, workspace, format) ==
    [ code |-> code, target_directory |-> target, timeout_ms |-> timeout,
      install_packages |-> packages, workspace |-> workspace,
      return_format |-> format ]

\* A path text as guest code writes it.
Path(abs, segs) == Cand("str", abs, segs)

\* A request that can take every turn of executePythonCode: a dependency,
\* the persistent workspace, a target directory of the caller.
FullRequest ==
    Request(Code(<<PrintStmt, PopenStmt>>), Target(TRUE, <<"w">>), AutoTimeout,
            Packages(<< <<"a">> >>), PersistentWorkspace, "detailed")

\* Requests that differ in one schema field.
SchemaRequests ==
    { Request(c, NoTarget, AutoTimeout, NoPackages, TempWorkspace, "simple") :
          c \in {BlankCode, Code(<<>>), Code(<<PrintStmt>>)} }
    \cup { Request(Code(<<>>), NoTarget, Millis(n), p, TempWorkspace, "simple") :
          n \in {999, 1000, 300000, 300001},
          p \in {NoPackages, Packages(<<>>), Packages(<< <<"a">> >>)} }
    \cup { Request(Code(<<PrintStmt>>), NoTarget, AutoTimeout, p, TempWorkspace, f) :
          f \in {"simple", "detailed", "verbose"},
          p \in {NoPackages, Packages(<< <<"a">> >>)} }
    \cup { Request(Code(<<>>), NoTarget, OmittedTimeout, p, TempWorkspace, "simple") :
          p \in {NoPackages, Packages(<<>>), Packages(<< <<"a">> >>),
                 Packages(<< <<"-", "a">> >>), Packages(<< <<" ">> >>)} }

\* Requests that differ in where the code runs.
PlaceRequests ==
    { Request(Code(<<>>), t, AutoTimeout, NoPackages, w, "simple") :
          t \in {NoTarget, Target(TRUE, <<"w">>), Target(FALSE, <<"x">>),
                 Target(FALSE, <<"..", "o">>), Target(FALSE, <<>>)},
          w \in {TempWorkspace, PersistentWorkspace,
                 CustomWorkspace(TRUE, <<"w">>),
                 CustomWorkspace(TRUE, <<"w", "..", "o">>),
                 CustomWorkspace(FALSE, <<"x">>),
                 CustomWorkspace(FALSE, <<"..", "o">>),
                 CustomWorkspace(FALSE, <<"x", "..", "..", "o">>),
                 CustomWorkspace(FALSE, <<"..", "srv", "x">>),
                 CustomWorkspace(FALSE, <<>>)} }

\* Requests whose code succeeds, fails, or is denied a file.
RunRequests ==
    { Request(Code(c), Target(TRUE, <<"x">>), AutoTimeout, NoPackages,
              TempWorkspace, f) :
          c \in { <<PrintStmt, PrintStmt>>,
                  << Stmt("open", << Path(TRUE, <<"o", "f">>) >>, FALSE) >>,
                  << PrintStmt, Stmt("open", << Path(TRUE, <<"o", "f">>) >>, FALSE) >>,
                  << Stmt("open", << Path(TRUE, <<"o", "f">>) >>, TRUE), PrintStmt >>,
                  << Stmt("open", << Path(FALSE, <<"f">>) >>, FALSE), PrintStmt >> },
          f \in {"simple", "detailed"} }

\* Requests whose code writes on both streams, never ends, or leaves a
\* child behind that holds the output streams.
StreamRequests ==
    { Request(Code(c), NoTarget, Millis(1000), NoPackages, TempWorkspace, "simple") :
          c \in { <<HangStmt>>, <<PrintStmt, HangStmt>>, <<PopenStmt, HangStmt>>,
                  <<WriteErrBlankStmt>>, <<WriteErrStmt, PrintStmt>>,
                  <<WriteErrBlankStmt, WriteErrStmt>>,
                  << WriteErrBlankStmt,
                     Stmt("open", << Path(TRUE, <<"o", "f">>) >>, FALSE) >> } }

\* A request for the details of a run with two dependencies.
DetailedRequest ==
    Request(Code(<<PrintStmt>>), Target(FALSE, <<"x">>), Millis(2000),
            Packages(<< <<"a">>, <<"a", "a">> >>), TempWorkspace, "detailed")

\* Requests whose code removes its own scratch directory, or a directory
\* beside it, before the engine does.
ScratchRequests ==
    { Request(Code(<< Stmt("rmtree", << Path(TRUE, p) >>, FALSE), PrintStmt >>),
              NoTarget, AutoTimeout, NoPackages, TempWorkspace, "simple") :
          p \in { tempDir, packagesDir, <<"tmp">> } }

\* Package lists whose last specifier is any text of up to MaxSpecLen
\* characters.
Specifiers == SeqsUpTo(SpecChars, MaxSpecLen)

SpecifierLists == { <<s>> : s \in Specifiers } \cup { << <<"a">>, s >> : s \in Specifiers }

SpecifierRequests ==
    { Request(Code(<<>>), NoTarget, AutoTimeout, Packages(l), TempWorkspace, "simple") :
          l \in SpecifierLists }

\* A request with a dependency, for the environments of the subprocesses.
EnvRequest ==
    Request(Code(<<>>), NoTarget, AutoTimeout, Packages(<< <<"a">> >>),
            TempWorkspace, "simple")

\* Path texts guest code hands to the intercepted primitives: inside the
\* target directory x and the scratch directory, outside both, through the
\* links, with "..", relative, with "~", a sibling whose name extends the
\* root's, the root in another case.
ShimPaths ==
    { Path(TRUE, <<"x">>), Path(TRUE, <<"x", "f">>), Path(TRUE, <<"tmp", "s1", "f">>),
      Path(TRUE, <<"o", "f">>), Path(TRUE, <<"xy">>), Path(TRUE, <<"X", "f">>),
      Path(TRUE, <<"x", "ln", "f">>), Path(TRUE, <<"o", "ln", "f">>),
      Path(TRUE, <<"x", "..", "o">>), Path(FALSE, <<"f">>),
      Path(FALSE, <<"..", "o">>), Path(FALSE, <<"~", "f">>) }

\* Source and destination of the two-path primitives.
ShimPairs ==
    { <<a, b>> : a \in { Path(TRUE, <<"x", "f">>), Path(TRUE, <<"o", "f">>),
                         Path(TRUE, <<"x", "ln", "f">>) },
                 b \in { Path(TRUE, <<"x", "f">>), Path(TRUE, <<"o", "f">>),
                         Path(FALSE, <<"..", "o">>), Path(TRUE, <<"xy">>) } }

\* Guest code of one call of an intercepted primitive, inside try/except or
\* not, followed by a print.
ShimPrograms ==
    { << Stmt(op, <<c>>, caught), PrintStmt >> :
          op \in OneArgOps, c \in ShimPaths, caught \in BOOLEAN }
    \cup { << Stmt(op, pair, caught), PrintStmt >> :
          op \in TwoArgOps, pair \in ShimPairs, caught \in BOOLEAN }
    \cup { << BreakStderrStmt, Stmt("open", << Cand(k, TRUE, <<>>) >>, caught) >> :
          k \in ErrorKinds \cup {"fd"}, caught \in BOOLEAN }

ShimRequests ==
    { Request(Code(c), Target(TRUE, <<"x">>), AutoTimeout, NoPackages,
              TempWorkspace, "simple") : c \in ShimPrograms }

\* Guest code that reaches into the closures of the wrappers, then opens a
\* file where the list now leads; guest code that asks tempfile for an
\* entry, with no directory, with a directory by keyword or by position,
\* and with a prefix that climbs out of the directory.
OutsideFile == Stmt("open", << Path(TRUE, <<"o", "f">>) >>, FALSE)

ClosurePrograms ==
    { << ClosureAppendStmt(<<"o">>), OutsideFile >>,
      << OutsideFile >>,
      << Stmt("open", << Path(TRUE, <<"o", "f">>) >>, TRUE),
         ClosureAppendStmt(<<"o">>), OutsideFile >> }

TempfileDirs ==
    { Path(TRUE, <<"x">>), Path(TRUE, <<"o">>), Path(FALSE, <<>>),
      Path(TRUE, tempDir), Cand("int", TRUE, <<>>) }

TempfilePrograms ==
    { << TempStmt(op, "none", <<>>, prefix, caught), PrintStmt >> :
          op \in TempfileOps, prefix \in { <<>>, <<"..", "..", "o">> },
          caught \in BOOLEAN }
    \cup { << TempStmt(op, how, <<d>>, <<>>, caught), PrintStmt >> :
          op \in TempfileOps, how \in {"keyword", "positional"},
          d \in TempfileDirs, caught \in BOOLEAN }

\* Guest code for the Python installations: it prints, opens a file in
\* its directory, copies it and asks for a temporary file.
StartupProgram ==
    << PrintStmt,
       Stmt("open", << Path(FALSE, <<"f">>) >>, TRUE),
       Stmt("copy", << Path(FALSE, <<"f">>), Path(FALSE, <<"xy">>) >>, TRUE),
       TempStmt("mkstemp", "none", <<>>, <<>>, TRUE) >>

Pythons ==
    { Python(lacks, setup, chdir) :
          lacks \in SUBSET OptionalModules, setup \in {"ok", "raise"},
          chdir \in {"ok", "fail"} }

GuestRequest(c) ==
    Request(Code(c), Target(TRUE, <<"x">>), AutoTimeout, NoPackages,
            TempWorkspace, "simple")

\* Candidates handed to _is_path_allowed: every path of up to MaxPathLen
\* names, absolute, relative or below "~", and the values that are no path.
PathNames == {"x", "xy", "X", "o", "ln", "f", "..", ".", "tmp", "s1"}

PathCandidates ==
    { Path(abs, segs) : abs \in BOOLEAN, segs \in SeqsUpTo(PathNames, MaxPathLen) }
    \cup { Path(FALSE, <<"~">> \o segs) : segs \in SeqsUpTo(PathNames, MaxPathLen - 1) }
    \cup { Cand(k, TRUE, <<>>) : k \in ErrorKinds }

\* The first allowed directory: a target directory, or the filesystem root.
PathRoots == { <<"x">>, <<"o">>, <<>> }

(***************************************************************************)
(* Initial states and specifications.                                      *)
(***************************************************************************)
Fresh ==
    /\ parsed = NoParsed
    /\ timeout_ms = 0
    /\ workspaceDir = <<>>
    /\ resolvedTargetDir = <<>>
    /\ tempExists = FALSE
    /\ tempCreated = FALSE
    /\ rmAttempts = 0
    /\ logged = 0
    /\ pending = "NoError"
    /\ spawned = <<>>
    /\ probe = NoProbe
    /\ proc = NoProc
    /\ runResult = NoResult
    /\ finalResult = NoResult
    /\ result = NoResult
    /\ guest = NoGuest
    /\ touched = {}

\* executePythonCode(args) is called.
StartOn(a, plat, h, py) ==
    /\ entry = "executePythonCode"
    /\ args = a
    /\ platform = plat
    /\ hostEnv = h
    /\ interp = py
    /\ pc = "call"
    /\ disk = {}
    /\ peer = NoPeer
    /\ installed = {}
    /\ Fresh

Start(a, plat, h) == StartOn(a, plat, h, TypicalPython)

Init ==
    \E a \in {FullRequest} \cup SchemaRequests \cup PlaceRequests \cup RunRequests
               \cup StreamRequests \cup ScratchRequests \cup {DetailedRequest},
       plat \in Platforms :
        Start(a, plat, TypicalEnv)

InitSpecifiers ==
    \/ Start(FullRequest, "linux", TypicalEnv)
    \/ \E a \in SpecifierRequests : Start(a, "linux", TypicalEnv)

InitEnv ==
    \/ Start(FullRequest, "linux", TypicalEnv)
    \/ \E plat \in Platforms, h \in HostEnvs : Start(EnvRequest, plat, h)

InitGuest ==
    \/ \E plat \in Platforms : Start(FullRequest, plat, TypicalEnv)
    \/ \E c \in ClosurePrograms \cup TempfilePrograms, plat \in Platforms :
          Start(GuestRequest(c), plat, TypicalEnv)
    \/ \E py \in Pythons, plat \in Platforms :
          StartOn(GuestRequest(StartupProgram), plat, TypicalEnv, py)

\* Requests on a host whose HOME is set or not.
HomelessEnv == [TypicalEnv EXCEPT !["HOME"] = ""]

InitHome ==
    \/ \E plat \in Platforms : Start(FullRequest, plat, TypicalEnv)
    \/ \E a \in PlaceRequests \cup RunRequests, plat \in Platforms,
          h \in {TypicalEnv, HomelessEnv} :
          Start(a, plat, h)

InitShim ==
    \E a \in {FullRequest} \cup ShimRequests, plat \in Platforms :
        Start(a, plat, TypicalEnv)

\* installPythonPackages(packagesDir, packages, timeout_ms) is called with a
\* list no schema has seen.
InitInstaller ==
    \/ Start(FullRequest, "linux", TypicalEnv)
    \/ \E l \in SpecifierLists, ms \in {0, 30000} :
          /\ entry = "installPythonPackages"
          /\ args = Request(Code(<<>>), NoTarget, Millis(ms), Packages(l),
                            TempWorkspace, "simple")
          /\ platform = "linux"
          /\ hostEnv = TypicalEnv
          /\ interp = TypicalPython
          /\ pc = "find"
          /\ parsed = [NoParsed EXCEPT !.install_packages = l]
          /\ timeout_ms = ms
          /\ workspaceDir = <<>>
          /\ resolvedTargetDir = <<>>
          /\ tempExists = FALSE
          /\ tempCreated = FALSE
          /\ rmAttempts = 0
          /\ logged = 0
          /\ pending = "NoError"
          /\ spawned = <<>>
          /\ probe = [for |-> "install", idx |-> 1, phase |-> "spawn", cmd |-> ""]
          /\ proc = NoProc
          /\ runResult = NoResult
          /\ finalResult = NoResult
          /\ result = NoResult
          /\ guest = NoGuest
          /\ touched = {}
          /\ disk = {}
          /\ peer = NoPeer
          /\ installed = {}

\* generatePythonWrapper is called with a source text of up to MaxCodeLen
\* code units.
SourceTexts == SeqsUpTo(CodeUnits, MaxCodeLen)

InitCodec ==
    \E text \in SourceTexts :
        /\ entry = "generatePythonWrapper"
        /\ args = text
        /\ platform = "linux"
        /\ hostEnv = TypicalEnv
        /\ interp = TypicalPython
        /\ pc = "generate"
        /\ disk = {}
        /\ peer = NoPeer
        /\ installed = {}
        /\ Fresh

\* _is_path_allowed(filepath) is called inside a guest.
InitPath ==
    \E c \in PathCandidates, root \in PathRoots, plat \in Platforms,
       ok \in BOOLEAN :
        /\ entry = "_is_path_allowed"
        /\ args = c
        /\ platform = plat
        /\ hostEnv = TypicalEnv
        /\ interp = TypicalPython
        /\ pc = "check"
        /\ parsed = NoParsed
        /\ timeout_ms = 0
        /\ workspaceDir = <<>>
        /\ resolvedTargetDir = <<>>
        /\ tempExists = FALSE
        /\ tempCreated = FALSE
        /\ rmAttempts = 0
        /\ logged = 0
        /\ pending = "NoError"
        /\ spawned = <<>>
        /\ probe = NoProbe
        /\ proc = NoProc
        /\ runResult = NoResult
        /\ finalResult = NoResult
        /\ result = NoResult
        /\ guest = [ NoGuest EXCEPT
                       !.stage = "check",
                       !.dirs = <<root, tempDir>>,
                       !.cwd = Realpath(Path(TRUE, root), <<>>, plat),
                       !.stderrOk = ok,
                       !.lastOp = "_is_path_allowed",
                       !.lastPaths = <<c>> ]
        /\ touched = {}
        /\ disk = {}
        /\ peer = NoPeer
        /\ installed = {}

Next ==
    \/ ExecutePythonCode
    \/ WorkspaceMkdir
    \/ MkdirTemp
    \/ MkdirPackages
    \/ StatTarget
    \/ RmNotDirectory
    \/ RmTargetMissing
    \/ WriteScript
    \/ FindPythonSpawn
    \/ FindPythonSettles
    \/ InstallValidateSpawn
    \/ InstallerWrites
    \/ InstallerExits
    \/ ProcessTerminated
    \/ ProcessKilled
    \/ DescendantExits
    \/ OnStdoutData
    \/ OnStderrData
    \/ OnDeadline
    \/ OnGrace
    \/ OnError
    \/ OnClose
    \/ InstallReturns
    \/ RmAfterInstallError
    \/ ExecSpawn
    \/ GuestSetupSandbox
    \/ GuestDelSetup
    \/ GuestChdir
    \/ GuestStatement
    \/ GuestFinishes
    \/ ExecReturns
    \/ Cleanup
    \/ CatchCleanup

NextPath == CheckPath

NextCodec == GenerateWrapper \/ GuestDecodes

Spec == Init /\ [][Next]_vars

SpecSpecifiers == InitSpecifiers /\ [][Next]_vars

SpecEnv == InitEnv /\ [][Next]_vars

SpecShim == InitShim /\ [][Next]_vars

SpecGuest == InitGuest /\ [][Next]_vars

SpecHome == InitHome /\ [][Next]_vars

SpecInstaller == InitInstaller /\ [][Next]_vars

SpecPath == InitPath /\ [][NextPath]_vars

SpecCodec == InitCodec /\ [][NextCodec]_vars

\* Requests for the runs in time: a full request, and guests that end, never
\* end, or leave a child behind.
InitLive ==
    \E a \in {FullRequest} \cup StreamRequests :
        Start(a, "linux", TypicalEnv)

\* What the host and the operating system do: every await of
\* executePythonCode settles (file system calls, the interpreter probe with
\* its own timer), the event loop runs every callback that is due (timers,
\* data, close, error), SIGKILL ends a process, a stream with no holder
\* closes.  What a subprocess does of its own accord (write, go on, exit,
\* obey SIGTERM) and when a child it left behind exits is up to them.
HostStep ==
    \/ ExecutePythonCode
    \/ WorkspaceMkdir
    \/ MkdirTemp
    \/ MkdirPackages
    \/ StatTarget
    \/ RmNotDirectory
    \/ RmTargetMissing
    \/ WriteScript
    \/ FindPythonSpawn
    \/ FindPythonSettles
    \/ InstallValidateSpawn
    \/ ProcessKilled
    \/ OnStdoutData
    \/ OnStderrData
    \/ OnDeadline
    \/ OnGrace
    \/ OnError
    \/ OnClose
    \/ InstallReturns
    \/ RmAfterInstallError
    \/ ExecSpawn
    \/ ExecReturns
    \/ Cleanup
    \/ CatchCleanup

SpecLive == InitLive /\ [][Next]_vars /\ WF_vars(HostStep)

(***************************************************************************)
(* Requests one after the other: each call of executePythonCode finds the  *)
(* disk as the calls before it left it.                                    *)
(***************************************************************************)
\* A file of the persistent workspace, as guest code names it from there.
WorkspaceFile == Path(FALSE, <<"f">>)

\* Requests that write, keep and remove a file of the persistent workspace,
\* and a request for a package with no version.
SeqRequests ==
    { Request(Code(c), NoTarget, AutoTimeout, NoPackages, PersistentWorkspace,
              "simple") :
          c \in { << Stmt("open", <<WorkspaceFile>>, FALSE) >>,
                  << PrintStmt >>,
                  << Stmt("remove", <<WorkspaceFile>>, FALSE) >> } }
    \cup { Request(Code(<<PrintStmt>>), NoTarget, AutoTimeout,
                   Packages(<< <<"a">> >>), TempWorkspace, "simple"),
           FullRequest }

\* A scratch directory that an earlier request left behind: its name holds
\* that request's session id, so no later request meets it.
LeftBehind == TmpDir \o <<"s0">>

\* What the finished request leaves on disk for the next one.
DiskAfterRequest ==
    RemoveTree(disk, tempDir)
        \cup (IF tempDir \in disk THEN {LeftBehind} ELSE {})

\* The packages pip fetched for the finished request: the guest is spawned
\* only after the installer closed with exit code 0.
InstalledNow ==
    IF /\ \E i \in 1..Len(spawned) : spawned[i].kind = "installer"
       /\ \E i \in 1..Len(spawned) : spawned[i].kind = "guest"
    THEN { parsed.install_packages[i] : i \in 1..Len(parsed.install_packages) }
    ELSE {}

\* The request has returned and executePythonCode is called again, with a
\* new session id.
NextRequest ==
    /\ pc = "done"
    /\ entry = "executePythonCode"
    /\ \E a \in SeqRequests : args' = a
    /\ pc' = "call"
    /\ parsed' = NoParsed
    /\ timeout_ms' = 0
    /\ workspaceDir' = <<>>
    /\ resolvedTargetDir' = <<>>
    /\ tempExists' = FALSE
    /\ tempCreated' = FALSE
    /\ rmAttempts' = 0
    /\ logged' = 0
    /\ pending' = "NoError"
    /\ spawned' = <<>>
    /\ probe' = NoProbe
    /\ proc' = NoProc
    /\ runResult' = NoResult
    /\ finalResult' = NoResult
    /\ result' = NoResult
    /\ guest' = NoGuest
    /\ touched' = {}
    /\ disk' = DiskAfterRequest
    /\ installed' = installed \cup InstalledNow
    /\ UNCHANGED << entry, platform, hostEnv, interp, peer >>

InitSeq == \E a \in SeqRequests : Start(a, "linux", TypicalEnv)

NextSeq == Next \/ NextRequest

SpecSeq == InitSeq /\ [][NextSeq]_vars

(***************************************************************************)
(* Two requests side by side: while the request at hand runs, a second     *)
(* call of executePythonCode takes the same steps with a session id of its *)
(* own.                                                                    *)
(***************************************************************************)
\* path.join(os.tmpdir(), sessionId) of the second call
peerTempDirWithoutSessionId == TmpDir \o <<"s1">>

peerTempDir == TmpDir \o <<"s2">>

\* The workspaces and target directories of the second call.  A caller may
\* name any directory, the scratch directory of a running request included.
PeerWorkspaces ==
    {TempWorkspace, PersistentWorkspace, CustomWorkspace(TRUE, <<"w">>)}

PeerTargets == {NoTarget, Target(TRUE, <<"w">>), Target(TRUE, tempDir)}

\* workspaceDir of the second call
PeerWorkspaceDir(w) ==
    IF w.mode = "persistent" THEN PersistentDir
    ELSE IF w.mode = "temp" THEN peerTempDir
    ELSE CustomWorkspaceDir(w)

\* The second call up to its guest: the workspace directory, the scratch
\* directory with its packages directory and script, the working directory.
PeerBegins ==
    /\ peer.stage = "none"
    /\ pc # "call"
    /\ \E w \in PeerWorkspaces, t \in PeerTargets :
          \* fs.stat(resolvedTargetDir): a scratch directory is there only
          \* while its request has it on disk
          /\ (t.given /\ IsUnder(t.segs, TmpDir)) => t.segs \in disk
          /\ peer' = [ stage |-> "running", workspace |-> w, target |-> t,
                       workDir |-> ResolveTargetDir(
                                      [target_directory |-> t, workspace |-> w],
                                      PeerWorkspaceDir(w)) ]
          /\ disk' = disk \cup {PeerWorkspaceDir(w), peerTempDir,
                                peerTempDir \o <<"packages">>,
                                peerTempDir \o <<"script.py">>}
    /\ UNCHANGED << hostVars, guest, touched, inputVars, installed >>

\* The guest of the second call writes a file in its working directory.
PeerGuestWrites ==
    /\ peer.stage = "running"
    /\ peer' = [peer EXCEPT !.stage = "ran"]
    /\ disk' = disk \cup {peer.workDir \o <<"f">>}
    /\ UNCHANGED << hostVars, guest, touched, inputVars, installed >>

\* await fs.rm(tempDir, { recursive: true, force: true }) of the second call
PeerCleanup ==
    /\ peer.stage \in {"running", "ran"}
    /\ peer' = [peer EXCEPT !.stage = "done"]
    /\ disk' = RemoveTree(disk, peerTempDir)
    /\ UNCHANGED << hostVars, guest, touched, inputVars, installed >>

\* Requests that write a file in their working directory.
PairRequests ==
    { Request(Code(<< Stmt("open", <<WorkspaceFile>>, FALSE) >>), t, AutoTimeout,
              NoPackages, w, "simple") :
          t \in {NoTarget, Target(TRUE, <<"w">>)},
          w \in {TempWorkspace, PersistentWorkspace,
                 CustomWorkspace(TRUE, <<"w">>)} }
    \cup {FullRequest}

InitPair == \E a \in PairRequests : Start(a, "linux", TypicalEnv)

NextPair == Next \/ PeerBegins \/ PeerGuestWrites \/ PeerCleanup

SpecPair == InitPair /\ [][NextPair]_vars

(***************************************************************************)
(* Properties: package specifiers.                                         *)
(***************************************************************************)
\* The characters a specifier may hold: letters, digits, '_', '.', '-',
\* '[', ']', '!', '=', '<', '>', ','.
SpecifierCharset == {"a", "0", "_", ".", "-", "[", "]", "!", "=", "<", ">", ","}

\* A specifier that starts with '-', contains '..' or '--', or holds a
\* character outside the charset.
ViolatesGrammar(s) ==
    \/ StartsWith(s, <<"-">>)
    \/ Includes(s, <<".", ".">>)
    \/ Includes(s, <<"-", "-">>)
    \/ \E i \in 1..Len(s) : s[i] \notin SpecifierCharset

RequestedPackages == args.install_packages.list

\* C1 as stated: a request of executePythonCode whose install_packages holds
\* a specifier that violates the grammar is rejected as a failure, and no
\* subprocess is ever spawned for it.
C1_RejectedAsSent ==
    ( /\ entry = "executePythonCode"
      /\ args.install_packages.given
      /\ \E i \in 1..Len(RequestedPackages) : ViolatesGrammar(RequestedPackages[i]) )
    => /\ spawned = <<>>
       /\ pc \in {"call", "done"}
       /\ pc = "done" => result.isError

\* C1 amended: a request of executePythonCode whose install_packages holds a
\* specifier that violates the grammar after the white space around it is
\* trimmed away is rejected as a failure (invalid arguments), and no
\* subprocess is ever spawned for it.
C1_RejectedAfterTrim ==
    ( /\ entry = "executePythonCode"
      /\ args.install_packages.given
      /\ \E i \in 1..Len(RequestedPackages) :
            ViolatesGrammar(Trim(RequestedPackages[i])) )
    => /\ spawned = <<>>
       /\ pc \in {"call", "done"}
       /\ pc = "done" => (result.isError /\ result.kind = "InvalidArguments")

\* A request with the specifier "-a" behind a valid one has been rejected.
C1_Witness ==
    /\ entry = "executePythonCode"
    /\ pc = "done"
    /\ args.install_packages.given
    /\ RequestedPackages = << <<"a">>, <<"-", "a">> >>
    /\ result.kind = "InvalidArguments"
    /\ spawned = <<>>

\* C2: installPythonPackages called with a list that holds a specifier
\* violating the grammar returns a failure that names that specifier, and no
\* subprocess of any kind has been spawned by then.
C2_ValidatedBeforeSpawn ==
    ( /\ entry = "installPythonPackages"
      /\ \E i \in 1..Len(parsed.install_packages) :
            ViolatesGrammar(parsed.install_packages[i]) )
    => /\ spawned = <<>>
       /\ pc = "done" =>
            /\ result.isError
            /\ result.kind = "InvalidPackageName"
            /\ ViolatesGrammar(result.pkg)

(***************************************************************************)
(* Properties: the environment of the subprocesses.                        *)
(***************************************************************************)
\* The whitelist of the minimal environment.
Whitelist(plat) ==
    {"PATH", "HOME", "TMPDIR", "TEMP", "TMP"} \cup
    (IF plat = "win32"
     THEN {"SYSTEMROOT", "WINDIR", "USERNAME", "USERPROFILE", "APPDATA", "LOCALAPPDATA"}
     ELSE {"USER", "LOGNAME", "LANG", "LC_ALL"})

\* Variables the runner sets itself.
SetByRunner == {"PYTHONPATH", "PYTHONIOENCODING", "PYTHONUTF8"}

\* The host environment with every variable outside the whitelist unset.
Masked(h, plat) == [v \in HostVars |-> IF v \in Whitelist(plat) THEN h[v] ELSE ""]

ChildEnv(kind, h, plat) ==
    IF kind = "installer" THEN InstallerEnv(h, plat)
    ELSE GuestEnv(h, plat, PackagesDirValue)

\* C3: the environment of the installer and of the guest holds, from the
\* host environment, exactly the whitelisted variables with a non-empty host
\* value, each with the host's value; it is the environment any host
\* environment with the same whitelisted variables yields.
C3_MinimalEnvironment ==
    \A i \in 1..Len(spawned) :
        spawned[i].kind \in {"installer", "guest"} =>
            LET env == spawned[i].env
            IN  /\ DOMAIN env \subseteq Whitelist(platform) \cup SetByRunner
                /\ \A v \in Whitelist(platform) :
                      /\ v \in DOMAIN env <=> hostEnv[v] # ""
                      /\ v \in DOMAIN env => env[v] = hostEnv[v]
                /\ env = ChildEnv(spawned[i].kind, Masked(hostEnv, platform), platform)

\* The guest was spawned on a host that holds a credential and has no HOME.
C3_Witness ==
    \E i \in 1..Len(spawned) :
        /\ spawned[i].kind = "guest"
        /\ hostEnv["AWS_SECRET_ACCESS_KEY"] # ""
        /\ hostEnv["HOME"] = ""
        /\ "HOME" \notin DOMAIN spawned[i].env
        /\ "PATH" \in DOMAIN spawned[i].env

\* C4: no subprocess spawned while serving a request, the interpreter probe
\* included, receives a host environment variable outside the whitelist.
C4_NoAmbientVariable ==
    \A i \in 1..Len(spawned) :
        \A v \in DOMAIN spawned[i].env :
            (v \in HostVars /\ hostEnv[v] # "" /\ spawned[i].env[v] = hostEnv[v])
                => v \in Whitelist(platform)

\* C5: PYTHONPATH of the guest is the packages directory of the request,
\* whatever the host's PYTHONPATH is, and the installer is given none.
C5_SearchPath ==
    \A i \in 1..Len(spawned) :
        /\ spawned[i].kind = "guest" =>
              /\ "PYTHONPATH" \in DOMAIN spawned[i].env
              /\ spawned[i].env["PYTHONPATH"] = PackagesDirValue
        /\ spawned[i].kind = "installer" =>
              "PYTHONPATH" \notin DOMAIN spawned[i].env

\* The installer and the guest were spawned on a host whose PYTHONPATH is "b".
C5_Witness ==
    /\ hostEnv["PYTHONPATH"] = "b"
    /\ \E i \in 1..Len(spawned) : spawned[i].kind = "installer"
    /\ \E i \in 1..Len(spawned) : spawned[i].kind = "guest"

(***************************************************************************)
(* Properties: the path-allow check.                                       *)
(***************************************************************************)
\* The canonical text of the candidate _is_path_allowed was called with, and
\* of the allowed roots.
CandidateText == RealText(args, guest.cwd, platform)

RootTexts ==
    { RealText(Path(TRUE, guest.dirs[i]), guest.cwd, platform) :
          i \in 1..Len(guest.dirs) }

Verdict == guest.last.verdict[1]

\* C6: _is_path_allowed returns true if and only if the candidate's canonical text
\* equals the canonical text of an allowed root or starts with that root
\* followed by the path separator.
C6_AllowedIffUnderRoot ==
    (entry = "_is_path_allowed" /\ pc = "checked" /\ args.kind = "str") =>
        ( Verdict = "allowed" <=>
            \E r \in RootTexts :
                \/ CandidateText = r
                \/ StartsWith(CandidateText, r \o <<Sep(platform)>>) )

\* Root /x, candidate /xy: a shared text prefix without the separator, denied.
C6_Witness ==
    /\ entry = "_is_path_allowed"
    /\ pc = "checked"
    /\ platform = "linux"
    /\ guest.dirs[1] = <<"x">>
    /\ args = Path(TRUE, <<"xy">>)
    /\ StartsWith(CandidateText, <<"/", "x">>)
    /\ Verdict = "denied"

\* C7: when converting or resolving the candidate raises, the function returns
\* denied: it neither returns allowed nor lets an exception leave.
C7_ErrorMeansDenied ==
    (entry = "_is_path_allowed" /\ pc = "checked" /\ args.kind \in ErrorKinds) =>
        Verdict = "denied"

(***************************************************************************)
(* Properties: the intercepted primitives.                                 *)
(***************************************************************************)
\* The spelling of the names of a location, as the platform compares them.
Spelled(segs, plat) ==
    [i \in 1..Len(segs) |->
        IF plat = "win32" THEN Lower(Spelling[segs[i]]) ELSE Spelling[segs[i]]]

\* A location is the root or lies below it.
Below(loc, root, plat) == StartsWith(Spelled(loc, plat), Spelled(root, plat))

\* A location inside one of the two allowed roots: the target directory
\* and the scratch directory, both at their canonical place.
InsideRoots(loc) ==
    \E i \in 1..Len(guest.dirs) :
        Below(loc, Realpath(Path(TRUE, guest.dirs[i]), <<>>, platform), platform)

\* The last statement called a primitive that exists on the platform, with
\* path texts of which one leads outside both roots.
CalledOutside ==
    /\ guest.lastOp \in InterceptedOps
    /\ ~(guest.lastOp = "chown" /\ platform = "win32")
    /\ \A i \in 1..Len(guest.lastPaths) : guest.lastPaths[i].kind = "str"
    /\ \E i \in 1..Len(guest.lastPaths) :
          ~InsideRoots(Realpath(guest.lastPaths[i], guest.cwd, platform))

\* C8: a call of an intercepted primitive with a path argument whose
\* canonical location is outside both roots raises the access-denied error
\* and the original primitive is not invoked, so no original primitive is
\* ever reached with such an argument; when the guest does not catch the
\* error the request is returned as a failure.
C8_DeniedBeforeOriginal ==
    /\ \A t \in touched :
          ~t.fd => \A i \in 1..Len(t.real) : InsideRoots(t.real[i])
    /\ CalledOutside =>
          /\ guest.last.raised = "PermissionError"
          /\ ~guest.last.invoked
    /\ (CalledOutside /\ guest.uncaught /\ pc = "done") => result.isError

\* A rename from inside the target directory to a place outside was denied,
\* not caught, and the request has failed.
C8_Witness ==
    /\ pc = "done"
    /\ CalledOutside
    /\ guest.lastOp = "rename"
    /\ InsideRoots(Realpath(guest.lastPaths[1], guest.cwd, platform))
    /\ guest.uncaught
    /\ touched = {}
    /\ result.isError
    /\ result.kind = "ExecFailed"

(***************************************************************************)
(* Properties: the scratch directory.                                      *)
(***************************************************************************)
\* C9: once the scratch directory has been created, executePythonCode does
\* not return before a removal of the scratch directory has been attempted.
C9_RemovalAttempted ==
    (entry = "executePythonCode" /\ pc = "done" /\ tempCreated) => rmAttempts >= 1

\* The request returned because the target directory does not exist.
C9_Witness ==
    /\ entry = "executePythonCode"
    /\ pc = "done"
    /\ tempCreated
    /\ result.kind = "TargetMissing"
    /\ rmAttempts >= 1

\* C10: when the guest run succeeded and the removal of the scratch
\* directory then fails, the request is returned as a success with the same
\* content, and the failure is logged.
C10_CleanupFailureKeepsSuccess ==
    ( /\ entry = "executePythonCode"
      /\ pc = "done"
      /\ runResult.kind = "Success"
      /\ tempExists )
    => /\ ~result.isError
       /\ result = FormatResult(parsed, runResult)
       /\ result.out = runResult.out
       /\ logged = 1

\* The guest printed, exited with 0, and the scratch directory is still on
\* disk after the request returned.
C10_Witness ==
    /\ entry = "executePythonCode"
    /\ pc = "done"
    /\ runResult.kind = "Success"
    /\ runResult.out # <<>>
    /\ tempExists
    /\ rmAttempts = 1
    /\ ~result.isError

(***************************************************************************)
(* Properties: cleanup errors, the process runner, timeouts, validation.   *)
(***************************************************************************)
\* C11: a failure of the removal of the scratch directory is never returned
\* to the caller: after a failed verification of the target directory or a
\* failed installation the response is the original error and does not
\* carry the removal's error.
C11_RemovalFailureNotReturned ==
    (entry = "executePythonCode" /\ pc = "done")
    => /\ result.cause # "rm"
       /\ (probe.for = "install" /\ runResult.isError) => result = runResult

\* The calls of proc.kill(sig) made so far for the current run.
KillCalls(sig) == Cardinality({ i \in 1..Len(proc.kills) : proc.kills[i] = sig })

C12_DeadlineFires ==
    (proc.timeoutId = "armed" /\ proc'.timeoutId = "fired")
    => /\ proc'.kills = Append(proc.kills, "SIGTERM")
       /\ proc'.killTimeoutId = "armed"
       /\ proc'.killDelay = 5000

C12_GraceFires ==
    (proc.killTimeoutId = "armed" /\ proc'.killTimeoutId = "fired")
    => IF proc.exitCode = "null" /\ proc.signalCode = "null"
       THEN proc'.kills = Append(proc.kills, "SIGKILL")
       ELSE proc'.kills = proc.kills

C12_Timers ==
    /\ proc.timeoutId = "fired"
       => /\ KillCalls("SIGTERM") = 1
          /\ proc.killTimeoutId # "unset"
          /\ proc.killDelay = 5000
    /\ proc.timeoutId # "fired"
       => /\ proc.kills = <<>>
          /\ proc.killTimeoutId = "unset"
    /\ KillCalls("SIGKILL") = 1 => proc.killTimeoutId = "fired"
    /\ KillCalls("SIGKILL") <= 1

\* C12: in a run with a positive timeout, the deadline timer sends SIGTERM
\* once and starts a grace timer of 5000 ms; the grace timer sends SIGKILL
\* if and only if the exit code and the signal code of the process are both
\* unset when it fires.
C12_GracefulThenForceful ==
    /\ [](proc.timeoutDelay > 0 => C12_Timers)
    /\ [][proc.timeoutDelay > 0 => (C12_DeadlineFires /\ C12_GraceFires)]_vars

\* The grace timer fired after the process had ended on SIGTERM: no SIGKILL.
C12_Witness ==
    /\ proc.timeoutDelay > 0
    /\ proc.killTimeoutId = "fired"
    /\ proc.signalCode = "SIGTERM"
    /\ proc.kills = <<"SIGTERM">>

\* C13: once the runner has seen the first terminal event of a subprocess
\* (stream-close or spawn error), the deadline timer and the grace timer
\* are cancelled: no timer callback of the run fires afterwards and no
\* signal is sent to the process afterwards.
C13_TimersCancelled ==
    /\ [](proc.resolved => /\ proc.timeoutId # "armed"
                           /\ proc.killTimeoutId # "armed")
    /\ [][(proc.resolved /\ proc'.kind = proc.kind)
          => /\ proc'.timeoutId = proc.timeoutId
             /\ proc'.killTimeoutId = proc.killTimeoutId
             /\ proc'.kills = proc.kills
             /\ proc'.signals = proc.signals]_vars

\* Stream-close came during the grace period: the grace timer was cancelled.
C13_Witness ==
    /\ proc.resolved
    /\ proc.closed
    /\ proc.timeoutId = "fired"
    /\ proc.killTimeoutId = "cleared"

\* The outcome of the guest run has been reported on stream-close.
GuestReported == proc.kind = "guest" /\ proc.closed

\* Nothing the process wrote is still on its way to the handlers.
AllDelivered == proc.pipeOut = <<>> /\ proc.pipeErr = <<>>

OnlyWhiteSpace(chunks) == \A i \in 1..Len(chunks) : chunks[i].text = " "

C15_TimeoutCarriesOutput ==
    (proc.kind \in {"installer", "guest"} /\ proc.closed /\ proc.isTimedOut)
    => /\ runResult.isError
       /\ runResult.ms = timeout_ms
       /\ runResult.out = proc.stdout
       /\ runResult.err = proc.stderr

\* The guest process has not exited of its own accord: it has no exit code.
NotVoluntary == proc.kind = "guest" /\ proc.os # "failed" /\ proc.exitCode = "null"

C16_Signals ==
    NotVoluntary
    => /\ proc.closed
          => /\ runResult.kind = "Timeout"
             /\ runResult.isError
             /\ runResult.ms = timeout_ms
       /\ proc.signals # <<>>
          => /\ proc.signals[1] = "SIGTERM"
             /\ proc.timeoutId = "fired"
             /\ proc.timeoutDelay = timeout_ms
       /\ (proc.killTimeoutId = "fired" /\ proc.os = "running")
          => /\ proc.signals = <<"SIGTERM", "SIGKILL">>
             /\ proc.killDelay = KILL_GRACE_PERIOD_MS
       /\ Received("SIGKILL") => proc.killTimeoutId = "fired"

\* C16: a guest run with timeout T that does not exit of its own accord is
\* reported as timed out; it receives SIGTERM when the deadline timer of T
\* fires and, if it is still alive when the grace timer fires, SIGKILL; it
\* does not go on running after that.
C16_HangingGuestIsKilled ==
    /\ []C16_Signals
    /\ (proc.kind = "guest" /\ proc.os = "running") ~> (proc.os # "running")

\* A guest that ignored SIGTERM was ended by SIGKILL and reported as timed out.
C16_Witness ==
    /\ proc.kind = "guest"
    /\ proc.closed
    /\ proc.signalCode = "SIGKILL"
    /\ proc.signals = <<"SIGTERM", "SIGKILL">>
    /\ runResult.kind = "Timeout"
    /\ guest.ip <= Len(parsed.code)
    /\ parsed.code[guest.ip].op = "hang"

\* C17: every spawned subprocess run reaches a terminal state (completed,
\* timed out or killed, spawn failed) and the request then returns a
\* response: no run stays running forever, whatever the subprocess does.
C17_EveryRunReturns == Running ~> (pc = "done")

\* The timeout the request asks for: the number if one is given, else
\* 120000 ms with dependencies and 30000 ms without.
RequestedTimeout ==
    IF args.timeout_ms.given /\ ~args.timeout_ms.auto
    THEN args.timeout_ms.ms
    ELSE IF args.install_packages.given /\ Len(args.install_packages.list) > 0
    THEN 120000
    ELSE 30000

Accepted ==
    /\ entry = "executePythonCode"
    /\ pc # "call"
    /\ ~(pc = "done" /\ result.kind = "InvalidArguments")

\* C18: the effective timeout is the explicit numeric timeout_ms whenever
\* one is given, with or without packages; when timeout_ms is "auto" or
\* omitted it is 120000 ms if install_packages is non-empty and 30000 ms
\* otherwise.  Installer and guest run under that timeout.
C18_EffectiveTimeout ==
    Accepted
    => /\ timeout_ms = RequestedTimeout
       /\ proc.kind \in {"installer", "guest"}
          => proc.timeoutDelay = RequestedTimeout

\* An installer runs under the explicit timeout of a request with packages.
C18_Witness ==
    /\ Accepted
    /\ args.timeout_ms = Millis(1000)
    /\ Len(args.install_packages.list) > 0
    /\ proc.kind = "installer"
    /\ proc.timeoutDelay = 1000

GuestSpawned == \E i \in 1..Len(spawned) : spawned[i].kind = "guest"

\* The installation of the requested dependencies has failed.
InstallationFailed ==
    /\ entry = "executePythonCode"
    /\ probe.for = "install"
    /\ runResult.isError

\* The step spawns the guest of a request with dependencies.
SpawnsGuestAfterInstall ==
    /\ entry = "executePythonCode"
    /\ Len(parsed.install_packages) > 0
    /\ ~GuestSpawned
    /\ GuestSpawned'

C19_Outcomes ==
    /\ InstallationFailed
       => /\ ~GuestSpawned
          /\ pc = "done" => result.isError
    /\ (entry = "executePythonCode" /\ pc = "install_ret" /\ ~runResult.isError)
       => /\ proc.kind = "installer"
          /\ proc.closed
          /\ proc.exitCode = "0"
          /\ ~proc.isTimedOut

\* C19: if the installation of the dependencies fails in any way, the
\* request fails and the guest is never spawned; the guest is spawned only
\* after the installer's stream-close with exit code 0 and no timeout.
C19_GuestOnlyAfterInstall ==
    /\ []C19_Outcomes
    /\ [][SpawnsGuestAfterInstall
          => /\ ~runResult.isError
             /\ \E i \in 1..Len(spawned) : spawned[i].kind = "installer"]_vars

\* The installer timed out and the request has returned.
C19_Witness ==
    /\ InstallationFailed
    /\ runResult.kind = "InstallTimeout"
    /\ pc = "done"
    /\ result.isError
    /\ ~GuestSpawned

\* A request the schema does not accept: empty code, a timeout outside
\* 1000..300000, a specifier that is empty or violates the grammar once the
\* white space around it is gone, a return format that is not known.
FailsValidation ==
    \/ args.code.blank
    \/ /\ args.timeout_ms.given
       /\ ~args.timeout_ms.auto
       /\ (args.timeout_ms.ms < 1000 \/ args.timeout_ms.ms > 300000)
    \/ /\ args.install_packages.given
       /\ \E i \in 1..Len(RequestedPackages) :
             \/ Trim(RequestedPackages[i]) = <<>>
             \/ ViolatesGrammar(Trim(RequestedPackages[i]))
    \/ args.return_format \notin {"simple", "detailed"}

\* C20: a request that fails schema validation is rejected as a failure
\* before any directory is created and before any subprocess is spawned.
C20_RejectedBeforeEffects ==
    (entry = "executePythonCode" /\ FailsValidation)
    => /\ pc \in {"call", "done"}
       /\ pc = "done" => (result.isError /\ result.kind = "InvalidArguments")
       /\ workspaceDir = <<>>
       /\ ~tempCreated
       /\ ~tempExists
       /\ spawned = <<>>
       /\ proc = NoProc

\* A request with the specifier '-a' has been rejected.
C20_Witness ==
    /\ entry = "executePythonCode"
    /\ FailsValidation
    /\ RequestedPackages = << <<"-", "a">> >>
    /\ pc = "done"
    /\ result.kind = "InvalidArguments"

(***************************************************************************)
(* Properties: workspaces, target directory, formats, outcomes, requests   *)
(* in sequence and side by side.                                           *)
(***************************************************************************)
\* The request met a workspace error: the directory of the persistent or
\* the custom workspace could not be created, or a relative path escapes.
WorkspaceFailed == result.kind \in {"WorkspaceError", "WorkspaceEscapes"}

\* C21: a workspace error returns a failure at once: no scratch directory
\* has been created, no script has been written and no subprocess has been
\* spawned.
C21_WorkspaceErrorShortCircuits ==
    (entry = "executePythonCode" /\ WorkspaceFailed)
    => /\ pc = "done"
       /\ result.isError
       /\ ~tempCreated
       /\ ~tempExists
       /\ rmAttempts = 0
       /\ guest = NoGuest
       /\ spawned = <<>>
       /\ proc = NoProc

\* The directory of the persistent workspace could not be created.
C21_Witness ==
    /\ entry = "executePythonCode"
    /\ args.workspace.mode = "persistent"
    /\ result.kind = "WorkspaceError"
    /\ pc = "done"
    /\ ~tempCreated

\* The directory a relative custom workspace path names: the path resolved
\* against the directory the process was started in.
RelativeWorkspaceNamed == Normalize(<<>>, Cwd \o args.workspace.segs)

\* The request names a relative custom workspace outside that directory.
EscapingWorkspace ==
    /\ entry = "executePythonCode"
    /\ args.workspace.mode = "custom"
    /\ ~args.workspace.abs
    /\ ~IsUnder(RelativeWorkspaceNamed, Cwd)

\* C22: a relative custom workspace path that resolves outside the
\* directory the process was started in is rejected with a failure, and the
\* directory it names is not created.
C22_EscapingWorkspaceRejected ==
    (EscapingWorkspace /\ pc # "call")
    => /\ pc = "done"
       /\ result.isError
       /\ result.kind \in {"WorkspaceEscapes", "InvalidArguments"}
       /\ RelativeWorkspaceNamed \notin disk
       /\ disk = {}

\* The path x/../../o, which does not begin with '..', has been rejected.
C22_Witness ==
    /\ EscapingWorkspace
    /\ args.workspace.segs = <<"x", "..", "..", "o">>
    /\ pc = "done"
    /\ result.kind = "WorkspaceEscapes"

\* The request was accepted and names no target directory.
NoTargetSupplied ==
    /\ entry = "executePythonCode"
    /\ SchemaOk(args)
    /\ ~args.target_directory.given

\* The working directory the workspace mode stands for: the scratch
\* directory, the fixed directory under the home, the absolute custom path
\* with its '.' and '..' resolved.
WorkingDirOfMode ==
    IF args.workspace.mode = "temp" THEN tempDir
    ELSE IF args.workspace.mode = "persistent"
    THEN HomeDir \o <<"dc", "pw">>
    ELSE Normalize(<<>>, args.workspace.segs)

ModeCovered ==
    args.workspace.mode \in {"temp", "persistent"} \/ args.workspace.abs

\* C23: with no target_directory the working directory follows from the
\* workspace mode alone: the scratch directory for 'temp', the fixed
\* directory under the home for 'persistent', the normalized path for an
\* absolute custom path; the latter two exist once the request has made them.
C23_WorkingDirByMode ==
    (NoTargetSupplied /\ ModeCovered)
    => /\ pc \in {"stat", "write"} => resolvedTargetDir = WorkingDirOfMode
       /\ pc = "stat" => WorkingDirOfMode \in disk
       /\ guest # NoGuest => guest.dirs[1] = WorkingDirOfMode

\* A guest was started for the absolute custom workspace /w/../o.
C23_Witness ==
    /\ NoTargetSupplied
    /\ args.workspace.mode = "custom"
    /\ args.workspace.abs
    /\ args.workspace.segs = <<"w", "..", "o">>
    /\ guest.stage # "none"
    /\ guest.dirs[1] = <<"o">>

\* The request was accepted and carries a target_directory.
TargetSupplied ==
    /\ entry = "executePythonCode"
    /\ SchemaOk(args)
    /\ args.target_directory.given

\* The target_directory of the request as an absolute path.
TargetMadeAbsolute ==
    IF args.target_directory.abs THEN args.target_directory.segs
    ELSE Normalize(<<>>, Cwd \o args.target_directory.segs)

\* The guest's working directory and the working-directory root of its
\* confinement policy are the directory dir.
GuestWorksIn(dir) ==
    /\ pc \in {"stat", "write"} => resolvedTargetDir = dir
    /\ guest # NoGuest => guest.dirs[1] = dir
    /\ guest.stage = "user" => guest.cwd = Realpath(Path(TRUE, dir), <<>>, platform)

EmptyTarget == ~args.target_directory.abs /\ args.target_directory.segs = <<>>

\* C24 as stated: a supplied target_directory, made absolute, is the guest's
\* working directory and the working-directory root of the confinement
\* policy, whatever the workspace mode.
C24_TargetIsWorkingDir ==
    TargetSupplied => GuestWorksIn(TargetMadeAbsolute)

\* C24 amended: a supplied target_directory other than the empty string,
\* made absolute, is the guest's working directory and the
\* working-directory root of the confinement policy, whatever the workspace
\* mode; the workspace directory is used when target_directory is absent or
\* the empty string.
C24_NonEmptyTargetIsWorkingDir ==
    /\ (TargetSupplied /\ ~EmptyTarget) => GuestWorksIn(TargetMadeAbsolute)
    /\ (entry = "executePythonCode" /\ SchemaOk(args)
            /\ (~args.target_directory.given \/ EmptyTarget))
       => GuestWorksIn(workspaceDir)

\* A guest runs in the caller's target directory although the request chose
\* the persistent workspace.
C24_Witness ==
    /\ TargetSupplied
    /\ args.workspace.mode = "persistent"
    /\ args.target_directory.segs = <<"x">>
    /\ guest.stage = "user"
    /\ guest.cwd = <<"srv", "x">>

\* The step is a cleanup of a scratch directory that is not on disk.
CleansRemovedScratch ==
    /\ rmAttempts' = rmAttempts + 1
    /\ ~tempExists
    /\ tempDir \notin disk

\* C26: cleaning up a scratch directory that is already gone succeeds
\* silently: nothing on disk changes, the directory stays removed, nothing is
\* logged and nothing is raised, and the request returns what it would have
\* returned anyway.
C26_CleanupIdempotent ==
    [][ CleansRemovedScratch
        => /\ disk' = disk
           /\ ~tempExists'
           /\ logged' = logged
           /\ pending' = pending
           /\ pc' = "done"
           /\ pc = "cleanup" => result' = finalResult ]_vars

\* The guest removed its scratch directory itself; the final cleanup ran on
\* the missing directory and the successful result was returned.
C26_Witness ==
    /\ entry = "executePythonCode"
    /\ pc = "done"
    /\ guest.stage = "exited"
    /\ Len(args.code.stmts) = 2
    /\ args.code.stmts[1] = Stmt("rmtree", << Path(TRUE, tempDir) >>, FALSE)
    /\ guest.ip = 3
    /\ tempCreated
    /\ rmAttempts = 1
    /\ logged = 0
    /\ ~result.isError

\* executePythonScript has returned and the result has been formatted.
RunFormatted ==
    /\ entry = "executePythonCode"
    /\ finalResult.kind # "none"
    /\ pc \in {"cleanup", "done"}

\* The working directory as a file URI written with forward slashes.
WorkingDirUri ==
    <<"f", "i", "l", "e", ":", "/", "/">>
    \o (IF platform = "win32" THEN <<"C", ":">> ELSE <<>>)
    \o (IF resolvedTargetDir = <<>> THEN <<"/">>
        ELSE JoinNames(resolvedTargetDir, "/"))

\* The requested packages, one after the other with ', ' between them.
PackageList ==
    LET l == parsed.install_packages
    IN  IF Len(l) = 0 THEN <<>>
        ELSE IF Len(l) = 1 THEN l[1]
        ELSE l[1] \o <<",", " ">> \o l[2]

\* C27: the execution-details trailer (the working directory as a file URI
\* with forward slashes, the effective timeout, the comma-joined package
\* list when packages were requested) is appended exactly when
\* return_format is 'detailed' and the run succeeded; a failed run's result
\* is returned as the runner produced it, whatever the format.
C27_TrailerIffDetailedSuccess ==
    RunFormatted
    => /\ finalResult.trailer.present
              <=> (parsed.return_format = "detailed" /\ ~runResult.isError)
       /\ finalResult.trailer.present
              => /\ finalResult.trailer.workspace = WorkingDirUri
                 /\ \A i \in 1..Len(finalResult.trailer.workspace) :
                        finalResult.trailer.workspace[i] # "\\"
                 /\ finalResult.trailer.timeout = timeout_ms
                 /\ finalResult.trailer.listed <=> parsed.install_packages # <<>>
                 /\ finalResult.trailer.listed
                        => finalResult.trailer.packages = PackageList
       /\ runResult.isError => finalResult = runResult
       /\ ~runResult.trailer.present
       /\ pc = "done" => result = finalResult

\* A detailed run with two packages succeeded on Windows and its trailer
\* was returned.
C27_Witness ==
    /\ RunFormatted
    /\ pc = "done"
    /\ platform = "win32"
    /\ Len(parsed.install_packages) = 2
    /\ result.trailer.present
    /\ result.trailer.listed
    /\ result.trailer.timeout = 2000

\* A detailed run failed and was returned without a trailer.
C27_WitnessFailed ==
    /\ RunFormatted
    /\ pc = "done"
    /\ parsed.return_format = "detailed"
    /\ runResult.isError
    /\ ~result.trailer.present

\* executePythonScript has settled its promise and not yet returned.
GuestRunSettled ==
    /\ pc = "exec_ret"
    /\ proc.kind = "guest"
    /\ proc.resolved

\* The class of a guest run, in the order the claim gives.
OutcomeClass ==
    IF proc.os = "failed" THEN "SpawnError"
    ELSE IF proc.isTimedOut THEN "Timeout"
    ELSE IF proc.exitCode # "0" THEN "ExecFailed"
    ELSE "Success"

\* The print statements the guest ran before it ended.
PrintedBeforeEnd ==
    Cardinality({ i \in 1..(guest.ip - 1) : parsed.code[i].op = "print" })

\* C28: a guest run is reported as exactly one of spawn failure, timeout
\* (whatever the exit code), execution failure (with exit code, stderr and
\* stdout) or success, in this order of precedence; what the guest printed
\* before an uncaught exception is in the failure text.
C28_OutcomesClassified ==
    GuestRunSettled
    => /\ runResult.kind = OutcomeClass
       /\ runResult.isError <=> runResult.kind # "Success"
       /\ runResult.kind = "ExecFailed"
              => /\ runResult.exit = proc.exitCode
                 /\ runResult.err = proc.stderr
                 /\ runResult.out = proc.stdout
       /\ guest.uncaught
              => /\ runResult.kind \in {"ExecFailed", "Timeout"}
                 /\ proc.pipeOut = <<>>
                 /\ runResult.out = proc.stdout
                 /\ runResult.err = proc.stderr
                 /\ Len(runResult.out) >= PrintedBeforeEnd

\* The guest printed, then raised; the failure carries exit code 1 and the
\* printed chunk.
C28_Witness ==
    /\ GuestRunSettled
    /\ guest.uncaught
    /\ parsed.code[1] = PrintStmt
    /\ runResult.kind = "ExecFailed"
    /\ runResult.exit = "1"
    /\ Len(runResult.out) = 1

\* The deadline fired after the guest had exited with 0: a timeout.
C28_WitnessTimeoutExitZero ==
    /\ GuestRunSettled
    /\ proc.exitCode = "0"
    /\ runResult.kind = "Timeout"

\* The step is taken by guest code, not by the engine.
GuestStep == pc = "exec_run" /\ guest'.ip # guest.ip

\* What is on disk in or below the persistent workspace.
InPersistentWorkspace(d) == { p \in d : IsUnder(p, HomeDir \o <<"dc", "pw">>) }

\* C25: across any sequence of requests no step of the engine, cleanup
\* included, removes the persistent workspace or anything in it: a file a
\* request wrote there is on disk in every later request until guest code
\* removes it; what a cleanup removes lies in the scratch directory.
C25_PersistentWorkspaceSurvives ==
    [][ /\ ~GuestStep => InPersistentWorkspace(disk) \subseteq disk'
        /\ rmAttempts' = rmAttempts + 1
              => \A p \in disk \ disk' : IsUnder(p, tempDir) ]_vars

\* A persistent-workspace request that only prints has returned after its
\* cleanup, and the file an earlier request wrote is on disk.
C25_Witness ==
    /\ args.workspace.mode = "persistent"
    /\ args.code.stmts = <<PrintStmt>>
    /\ pc = "done"
    /\ tempCreated
    /\ rmAttempts = 1
    /\ ~tempExists
    /\ (HomeDir \o <<"dc", "pw", "f">>) \in disk

\* A specifier that names a package and no version.
Unpinned(s) == \A i \in 1..Len(s) : s[i] \notin {"=", "<", ">", "!", "~", "@"}

\* The request at hand asks only for packages without a version that the
\* installer fetched for an earlier request.
AsksForInstalledPackage ==
    /\ entry = "executePythonCode"
    /\ parsed.install_packages # <<>>
    /\ \A i \in 1..Len(parsed.install_packages) :
          /\ Unpinned(parsed.install_packages[i])
          /\ parsed.install_packages[i] \in installed

\* C30: a request for an unpinned package that an earlier request installed
\* is served from the cache kept across requests: the installer is not
\* run again for it.
C30_InstalledPackageNotInstalledAgain ==
    AsksForInstalledPackage
    => \A i \in 1..Len(spawned) : spawned[i].kind # "installer"

\* Both requests are under way and the request at hand has resolved its
\* working directory.
BothRunning ==
    /\ entry = "executePythonCode"
    /\ pc \notin {"call", "done"}
    /\ resolvedTargetDir # <<>>
    /\ peer.stage \in {"running", "ran"}

BothPersistent ==
    args.workspace.mode = "persistent" /\ peer.workspace.mode = "persistent"

\* A caller of one of the two requests supplied a directory: a custom
\* workspace path or a target_directory.
CallerNamedDirectory ==
    \/ args.workspace.mode = "custom"
    \/ peer.workspace.mode = "custom"
    \/ (args.target_directory.given /\ args.target_directory.segs # <<>>)
    \/ (peer.target.given /\ peer.target.segs # <<>>)

\* The scratch directories, scripts and packages directories of the two
\* requests are different paths, none inside the other.
ScratchApart ==
    /\ tempDir # peerTempDir
    /\ ~IsUnder(tempDir, peerTempDir)
    /\ ~IsUnder(peerTempDir, tempDir)
    /\ scriptPath # peerTempDir \o <<"script.py">>
    /\ packagesDir # peerTempDir \o <<"packages">>

\* C29 as stated: two concurrent requests have the same working directory
\* only if both chose the persistent workspace.
C29_SharedOnlyIfBothPersistent ==
    (BothRunning /\ ~BothPersistent) => resolvedTargetDir # peer.workDir

\* C29 amended: two concurrent requests have scratch directories, scripts
\* and packages directories of their own, no step of one changes the
\* output buffers, timers or position of the other, and they work in the
\* same directory only if both chose the persistent workspace or a caller
\* supplied a custom workspace or target_directory; a cleanup removes
\* nothing outside the scratch directory of its own request.
C29_SharedOnlyIfPersistentOrNamed ==
    /\ [](ScratchApart
          /\ ((BothRunning /\ ~CallerNamedDirectory)
                 => /\ resolvedTargetDir = peer.workDir => BothPersistent
                    /\ ~IsUnder(peer.workDir, tempDir)
                    /\ ~IsUnder(resolvedTargetDir, peerTempDir)))
    /\ [][ /\ rmAttempts' # rmAttempts
              => /\ \A p \in disk \ disk' : IsUnder(p, tempDir)
                 /\ peer.stage \in {"running", "ran"}
                       => (peerTempDir \in disk' /\ peer' = peer)
           /\ peer' # peer
              => /\ UNCHANGED << proc, guest, runResult, pc, tempExists >>
                 /\ \A p \in disk \ disk' : IsUnder(p, peerTempDir)
                 /\ tempDir \in disk => tempDir \in disk'
           /\ proc' # proc => peer' = peer ]_vars

\* Both requests chose the persistent workspace; the request at hand has
\* cleaned up and returned while the other one, which wrote its file, still
\* has its scratch directory.
C29_Witness ==
    /\ BothPersistent
    /\ ~CallerNamedDirectory
    /\ pc = "done"
    /\ rmAttempts = 1
    /\ ~tempExists
    /\ resolvedTargetDir = peer.workDir
    /\ peer.stage = "ran"
    /\ peerTempDir \in disk
    /\ (peer.workDir \o <<"f">>) \in disk

(***************************************************************************)
(* Properties: the generated script.                                       *)
(***************************************************************************)
\* The two roots generatePythonWrapper writes into the script.
GeneratedRoots == << resolvedTargetDir, tempDir >>

UnderGeneratedRoots(loc) ==
    \E i \in 1..Len(GeneratedRoots) :
        Below(loc, Realpath(Path(TRUE, GeneratedRoots[i]), <<>>, platform), platform)

\* C31: the allow-list of a generated script is the pair of the resolved
\* working directory and the scratch directory for as long as the guest
\* runs, and no original primitive is reached with a path outside these two.
C31_AllowListFixed ==
    (entry = "executePythonCode" /\ guest.dirs # <<>>) =>
        /\ guest.dirs = GeneratedRoots
        /\ \A t \in touched :
              ~t.fd => \A i \in 1..Len(t.real) : UnderGeneratedRoots(t.real[i])

\* The statement of the caller's code that ran last.
LastStmt == parsed.code[guest.ip - 1]

\* The guest has just called one of the four intercepted primitives of
\* tempfile, on a Python that has the module.
RanTempfile ==
    /\ entry = "executePythonCode"
    /\ guest.ip > 1
    /\ guest.ip <= Len(parsed.code) + 1
    /\ guest.lastOp \in TempfileOps
    /\ LastStmt.op = guest.lastOp
    /\ "tempfile" \notin interp.lacks

\* C32: a call of mkstemp, mkdtemp, NamedTemporaryFile or TemporaryDirectory
\* that names no directory creates its entry inside the scratch directory;
\* a call that names a directory creates its entry only if the directory
\* passes the allow check, and otherwise raises the access-denied error and
\* creates nothing.
C32_TempfileConfined ==
    RanTempfile =>
        IF LastStmt.how = "none"
        THEN /\ guest.last.invoked
             /\ IsUnder(TempfileEntry(Path(TRUE, tempDir), LastStmt.prefix,
                                      guest.cwd, platform),
                        tempDir)
        ELSE LET v == is_path_allowed(LastStmt.paths[1], guest.dirs, guest.cwd,
                                      platform, guest.stderrOk)
             IN  /\ guest.last.invoked => v = "allowed"
                 /\ v # "allowed" =>
                       /\ guest.last.raised = "PermissionError"
                       /\ ~guest.last.invoked

\* The caller's code has started: exec() was reached.
CallerCodeStarted ==
    /\ entry = "executePythonCode"
    /\ guest.stage = "user" \/ guest.ip > 1

StartupInOrder == guest.steps = << "setup", "del", "chdir" >>

\* C33: the caller's code starts only after _setup_sandbox() has returned
\* with the interceptions of builtins and os installed and those of
\* shutil, pathlib and tempfile installed unless their installation was
\* left through its except clause, then the routine was deleted, then the
\* working directory was changed to the resolved directory, in this order;
\* no caller code runs when the setup routine raises or the change of
\* directory fails.
C33_CallerCodeAfterStartup ==
    /\ CallerCodeStarted =>
          /\ StartupInOrder
          /\ guest.intercepted = {"builtins", "os"} \cup (OptionalModules \ interp.lacks)
          /\ guest.cwd = Realpath(Path(TRUE, resolvedTargetDir), <<>>, platform)
    /\ (interp.setup = "raise" \/ interp.chdir = "fail") =>
          /\ ~CallerCodeStarted
          /\ touched = {}
          /\ guest.ip = 1

\* The change of directory failed: the script ended with exit code 1 after
\* the first two steps and the request is returned as a failure.
C33_Witness ==
    /\ entry = "executePythonCode"
    /\ pc = "done"
    /\ interp.chdir = "fail"
    /\ interp.setup = "ok"
    /\ guest.steps = << "setup", "del" >>
    /\ guest.stage = "exited"
    /\ result.isError

\* Caller code runs on a Python whose pathlib interceptions could not be
\* installed.
C33_WitnessPartial ==
    /\ "pathlib" \in interp.lacks
    /\ CallerCodeStarted
    /\ guest.ip > 2
    /\ StartupInOrder

\* C33 as stated: the caller's code starts only after every interception
\* was installed, the routine deleted and the directory changed, and not at
\* all when one of these steps failed.
C33_CallerCodeAfterEveryInterception ==
    /\ CallerCodeStarted =>
          /\ StartupInOrder
          /\ guest.intercepted = {"builtins", "os"} \cup OptionalModules
    /\ (interp.lacks # {} \/ interp.setup = "raise" \/ interp.chdir = "fail") =>
          ~CallerCodeStarted

\* The characters that can stand between the quotes of b64decode('...').
Base64Alphabet == { Base64Char(i) : i \in 0..63 } \cup { Base64Pad }

IsSurrogate(cp) == cp >= 55296 /\ cp <= 57343

\* A text with every surrogate that has no partner replaced by U+FFFD.
Scrubbed(units) ==
    LET cps == CodePoints(units)
    IN  [i \in 1..Len(cps) |-> IF IsSurrogate(cps[i]) THEN 65533 ELSE cps[i]]

\* C34: the text the script decodes and hands to exec() is the text given
\* to generatePythonWrapper, character for character, for every source text
\* in which no surrogate stands without its partner; a surrogate without
\* its partner arrives as U+FFFD.  The source text enters the script as
\* characters of the base64 alphabet only, never as itself.
C34_SourceSurvivesEncoding ==
    entry = "generatePythonWrapper" =>
        /\ \A i \in 1..Len(guest.payload) : guest.payload[i] \in Base64Alphabet
        /\ pc = "decoded" => guest.source = Scrubbed(args)

\* The text U+1F600 (payload 8J+YgA==) has
\* been through the script and came out as it went in.
C34_Witness ==
    /\ entry = "generatePythonWrapper"
    /\ pc = "decoded"
    /\ args = << 55357, 56832 >>
    /\ guest.payload = << 56, 74, 43, 89, 103, 65, 61, 61 >>
    /\ guest.source = << 128512 >>

\* C34 as stated: for every source text, the decoded text is the text
\* given to the generator.
C34_DecodeIsIdentity ==
    (entry = "generatePythonWrapper" /\ pc = "decoded") =>
        guest.source = CodePoints(args)

\* The deadline timer of the guest run fired before the close event: its
\* callback called proc.kill.
DeadlineFiredBeforeClose == Len(proc.kills) >= 1

\* The process was running when the deadline timer fired: the signal
\* reached it.
RunningAtDeadline == Len(proc.signals) >= 1

\* C35: a guest run is reported as timed out exactly when the deadline
\* timer fired before the stream-close event was delivered, whether or not
\* the process was still running then; a process that exited with code 0
\* is reported as a success when its close event comes before the deadline.
C35_TimedOutIffDeadlineBeforeClose ==
    (GuestRunSettled /\ proc.os # "failed") =>
        /\ runResult.kind = "Timeout" <=> DeadlineFiredBeforeClose
        /\ (proc.exitCode = "0" /\ ~DeadlineFiredBeforeClose)
              => runResult.kind = "Success"

\* The guest left a child behind and exited with 0; the deadline fired
\* while the child held the streams, no signal reached the guest, and the
\* run is reported as timed out.
C35_Witness ==
    /\ GuestRunSettled
    /\ proc.exitCode = "0"
    /\ proc.kills = << "SIGTERM" >>
    /\ proc.signals = <<>>
    /\ guest.ip > Len(parsed.code)
    /\ runResult.kind = "Timeout"
    /\ runResult.isError

\* C35 as stated: a run is reported as timed out only if the process was
\* still running when the deadline timer fired.
C35_TimedOutOnlyIfRunning ==
    (GuestRunSettled /\ runResult.kind = "Timeout") => RunningAtDeadline

\* A subprocess of the request has just been spawned.
JustSpawned ==
    /\ entry = "executePythonCode"
    /\ proc'.kind \in {"installer", "guest"}
    /\ proc'.kind # proc.kind

\* C36: the installer and the guest run each get, at their own spawn, a
\* deadline timer of their own that is set to the full effective timeout:
\* the timer of the guest is armed anew, whatever the installer's timer did.
C36_FreshDeadlinePerSubprocess ==
    /\ [](proc.kind \in {"installer", "guest"} /\ entry = "executePythonCode"
            => /\ proc.timeoutDelay = timeout_ms
               /\ timeout_ms = EffectiveTimeout(parsed))
    /\ [][JustSpawned =>
            /\ proc'.timeoutDelay = timeout_ms
            /\ timeout_ms > 0 => proc'.timeoutId = "armed"
            /\ ~proc'.isTimedOut
            /\ proc'.kills = <<>>]_vars

\* The guest of a request with dependencies and a timeout of 2000 ms runs
\* under its own timer of 2000 ms after the installer has run under its.
C36_Witness ==
    /\ entry = "executePythonCode"
    /\ proc.kind = "guest"
    /\ proc.os = "running"
    /\ \E i \in 1..Len(spawned) : spawned[i].kind = "installer"
    /\ timeout_ms = 2000
    /\ proc.timeoutId = "armed"
    /\ proc.timeoutDelay = 2000

\* The request was accepted and names a relative target_directory.
RelativeTarget ==
    /\ TargetSupplied
    /\ ~args.target_directory.abs
    /\ ~EmptyTarget

\* The request was accepted and its relative custom workspace is what the
\* guest's working directory is taken from.
RelativeWorkspaceUsed ==
    /\ entry = "executePythonCode"
    /\ SchemaOk(args)
    /\ args.workspace.mode = "custom"
    /\ ~args.workspace.abs
    /\ ~args.target_directory.given \/ EmptyTarget

\* C37: a relative workspace path that becomes the guest's working
\* directory resolves to a location inside the directory the process was
\* started in; a relative target_directory becomes the working directory
\* as resolved against that directory, inside it or not, and is not
\* rejected for leaving it.
C37_RelativeWorkspaceInsideBase ==
    /\ (RelativeWorkspaceUsed /\ guest # NoGuest) => IsUnder(guest.dirs[1], Cwd)
    /\ (RelativeTarget /\ guest # NoGuest) => guest.dirs[1] = TargetMadeAbsolute
    /\ (RelativeTarget /\ pc = "done" /\ ~WorkspaceFailed)
          => result.kind \notin {"WorkspaceEscapes", "InvalidArguments"}

\* A guest runs in /o, which the relative target_directory ../o names.
C37_Witness ==
    /\ RelativeTarget
    /\ args.target_directory.segs = << "..", "o" >>
    /\ guest.stage = "user"
    /\ guest.cwd = << "o" >>
    /\ ~IsUnder(guest.dirs[1], Cwd)

\* C37 as stated: every relative path that becomes the guest's working
\* directory, workspace or target_directory, lies inside the directory the
\* process was started in.
C37_RelativePathsInsideBase ==
    ((RelativeWorkspaceUsed \/ RelativeTarget) /\ guest # NoGuest)
        => IsUnder(guest.dirs[1], Cwd)

\* The request was accepted, names a target directory and a workspace other
\* than the scratch directory.
WorkspaceOverridden ==
    /\ TargetSupplied
    /\ ~EmptyTarget
    /\ args.workspace.mode # "temp"

\* C38: when a target_directory is supplied the workspace parameter has no
\* effect: the workspace directory is not created and no workspace error
\* (creation failure, escaping relative path) fails the request.
C38_WorkspaceIgnoredWithTarget ==
    WorkspaceOverridden =>
        /\ ~WorkspaceFailed
        /\ workspaceDir # <<>> => workspaceDir \notin disk

\* C39: executePythonCode never throws or rejects: it returns a result
\* value on every path, and every result that is not the success of the
\* guest run carries the failure flag.
C39_NeverRejects ==
    entry = "executePythonCode" =>
        /\ pc # "rejected"
        /\ pc = "done" =>
              /\ result # NoResult
              /\ result.kind # "Success" => result.isError


\* Both terminal events of one subprocess have been handled.
BothEventsHandled == proc.errored /\ proc.closed

\* C40: each run of a subprocess yields one outcome: the first terminal
\* event the runner handles (spawn error or stream-close) settles the result,
\* and once it is settled no later event of the same subprocess changes it;
\* when both events have been handled the result is the one of the event
\* that came first.
C40_FirstEventDecides ==
    /\ [](BothEventsHandled => runResult = ErrorResult(proc))
    /\ [][(proc.resolved /\ proc'.kind = proc.kind) => runResult' = runResult]_vars

\* The close event of a guest that could not be created has been handled
\* after its error event, and the result is still the spawn failure.
C40_Witness ==
    /\ proc.kind = "guest"
    /\ BothEventsHandled
    /\ runResult.kind = "SpawnError"

=============================================================================
